---- MODULE Spec2Model ----
(***************************************************************************)
(* Avatar Interaction & Session Orchestration Core of Paper-Pal:           *)
(*   - StateMachine           (src/Paper-Pal/src/state/StateMachine.ts)    *)
(*   - NotificationQueue and useBubbleNotifier  (Bubble/useBubbleNotifier) *)
(*   - useChatInterface       (src/Paper-Pal/src/components/Chat)          *)
(*   - Home and ChatInterface (src/Paper-Pal/src/app/page.tsx)             *)
(* Each subsystem owns its own variables and has its own specification     *)
(* (SpecSM, SpecNQ, SpecHook, SpecChat, SpecQC, SpecHome, SpecPoll); a     *)
(* specification leaves the other subsystems' variables unchanged.         *)
(* SpecRe is the StateMachine with callbacks that call it, SpecApp is Home *)
(* with the Avatar's machine, the app store and the notifier, and SpecBoth *)
(* drives the notifier hook and the NotificationQueue class together.      *)
(***************************************************************************)
EXTENDS Integers, Sequences, FiniteSets, TLC

(***************************************************************************)
(* Bounds of the model.                                                    *)
(***************************************************************************)
\* Time advances in steps of TickMs milliseconds.
TickMs == 15000
\* At most MaxCallbacks subscriptions are held by a StateMachine at a time.
MaxCallbacks == 2
\* onStateChange returns at most MaxHandles unsubscribe handles per callback.
MaxHandles == 2
\* At most MaxMessages bubble messages are created in a run.
MaxMessages == 3
\* enqueueAll is called with arrays of at most MaxBatch messages.
MaxBatch == 2
\* At most MaxPending state updates are queued between two renders of the hook.
MaxPending == 3
\* At most MaxOpens chat sessions are opened in a run.
MaxOpens == 2
\* At most MaxChatMsgs chat messages are created in a run.
MaxChatMsgs == 4
\* The wall clock read by new Date() advances at most MaxChatClock times in a run.
MaxChatClock == 1
\* The inputs of matchQuickCommand carry at most MaxPad whitespace characters on each side.
MaxPad == 1
\* At most MaxPolls getPDFStatus calls are made in a run.
MaxPolls == 2
\* startPDFProcessing is not called once MaxKicks onStartPDFProcessing calls were made.
MaxKicks == 2
\* Home takes a message while fewer than MaxHomeMsgs messages exist or are owed.
MaxHomeMsgs == 2
\* During one transition() the callbacks call transition() at most MaxNested times.
MaxNested == 1
\* The backend reports notifications with ids 1 .. MaxNotifications.
MaxNotifications == 2

(***************************************************************************)
(* Program constants.                                                      *)
(***************************************************************************)
\* StateMachine._defaultIdleTimeout
DEFAULT_IDLE_TIMEOUT == 30000
\* useBubbleNotifier: DEFAULT_AUTO_DISMISS_TIMEOUT
DEFAULT_AUTO_DISMISS_TIMEOUT == 60000

VARIABLES
    \* ---- StateMachine ----
    currentState,        \* _currentState
    callbacks,           \* _callbacks, in registration order
    idleTimer,           \* _idleTimer: NoTimer (null) or a timeout handle
    defaultIdleTimeout,  \* _defaultIdleTimeout
    smTimeouts,          \* the event loop's pending setTimeout entries made by the machine
    unsubHandles,        \* callbacks for which onStateChange has returned an unsubscribe handle
    handlesIssued,       \* history: per callback, the unsubscribe handles returned so far
    handlesCalled,       \* history: per callback, how many of them client code has called
    notified,            \* callback invocations made by the last operation, in order
    smLast,              \* the last operation on the machine and what it returned
    \* ---- NotificationQueue (class) ----
    nqCurrent,           \* _current
    nqQueue,             \* _queue
    nqArrived,           \* history: every message enqueued, in arrival order
    nqShown,             \* history: the messages that became current, in that order
    nqCleared,           \* history: clear() has been called
    nqLast,              \* the last call and its return value
    \* ---- useBubbleNotifier (hook) ----
    hCurrent,            \* currentMessage as of the last render (what the callbacks close over)
    hQueue,              \* queue as of the last render
    hQUpd,               \* updates queued on the queue state since the last render
    hCUpd,               \* updates queued on the currentMessage state since the last render
    hTimerRef,           \* timerRef.current
    hTimeouts,           \* the event loop's pending setTimeout entries made by the hook
    hAutoDismiss,        \* options.autoDismissTimeout
    hCreated,            \* number of messages created so far
    hLive,               \* history: messages enqueued since the last clearAll()
    hShown,              \* history: messages that have been the rendered currentMessage
    hLast,               \* the last step of the hook
    \* ---- useChatInterface (hook) ----
    context,             \* context state: a ChatContext or NullCtx
    isOpen,              \* isOpen state
    isLoading,           \* isLoading state
    chatOpts,            \* which of the optional collaborators were supplied
    chatReqs,            \* the sendMessage / handleQuickCommand calls suspended at their await
    chatMsgCount,        \* number of ChatMessages created so far (message ids)
    chatClock,           \* the wall clock read by new Date()
    chatGen,             \* history: number of open() calls so far
    chatBase,            \* history: chatMsgCount at the last open()
    chatInput,           \* history: the arguments of the last open()
    chatClosed,          \* history: chatMsgCount at the last close() (0 before the first)
    chatSent,            \* history: user messages sendMessage appended since the last open/close/clearHistory
    chatLast,            \* the last step of the chat session and its result
    \* ---- quickCommands.ts (pure functions) ----
    qcInput,             \* the argument of the call
    qcResult,            \* whether the call was made, and the value it returned
    \* ---- Home (app/page.tsx) and the ChatInterface component ----
    isConnected,         \* useApiHealth().isConnected
    pdfKicks,            \* the onStartPDFProcessing calls made so far and how each stands
    ctxGen,              \* history: the open() that created the context object now in state
    processingStatus,    \* ChatInterface: the processingStatus state
    statusPollingRef,    \* ChatInterface: statusPollingRef.current
    pollIntervals,       \* the event loop's setInterval entries made by ChatInterface
    statusReqs,          \* getPDFStatus calls awaited by a mounted ChatInterface
    pollCount,           \* history: number of getPDFStatus calls made so far
    homeLast,            \* the last step of Home / ChatInterface
    \* ---- the app store, useStateMachine and Home's notifications effect ----
    smEvents,            \* what the last call on the machine did, in order, when its
                         \* callbacks call the machine themselves
    avatarState,         \* useAppStore: avatarState
    smMounted,           \* useStateMachine: stateMachineRef.current is a machine
    notifications,       \* Home: the notifications fetched from the backend
    processedNotificationIds,   \* Home: the processedNotificationIds state
    appLast              \* the last step of the app

smVars == <<currentState, callbacks, idleTimer, defaultIdleTimeout, smTimeouts,
            unsubHandles, handlesIssued, handlesCalled, notified, smLast>>

nqVars == <<nqCurrent, nqQueue, nqArrived, nqShown, nqCleared, nqLast>>

hVars == <<hCurrent, hQueue, hQUpd, hCUpd, hTimerRef, hTimeouts, hAutoDismiss,
           hCreated, hLive, hShown, hLast>>

chatVars == <<context, isOpen, isLoading, chatOpts, chatReqs, chatMsgCount, chatClock,
              chatGen, chatBase, chatInput, chatClosed, chatSent, chatLast>>

qcVars == <<qcInput, qcResult>>

homeVars == <<isConnected, pdfKicks, ctxGen, processingStatus, statusPollingRef,
              pollIntervals, statusReqs, pollCount, homeLast>>

appVars == <<smEvents, avatarState, smMounted, notifications, processedNotificationIds,
             appLast>>

vars == <<smVars, nqVars, hVars, chatVars, qcVars, homeVars, appVars>>

(***************************************************************************)
(* StateMachine.ts                                                         *)
(***************************************************************************)
AvatarState == {"idle", "alert", "active"}
TransitionTrigger == {"click", "newPaper", "timeout", "dismiss"}

\* `undefined`: the table has no entry
Undefined == "undefined"

\* null in the _idleTimer field
NoTimer == 0
\* setTimeout handles; a new handle differs from every handle still stored or pending
Handles == {1, 2}
\* the callbacks client code may register
CallbackIds == {"f", "g"}
\* the durations client code passes to setDefaultIdleTimeout / startIdleTimer
TimeoutChoices == {TickMs, DEFAULT_IDLE_TIMEOUT}

\* mutant of VALID_TRANSITIONS: a click in active is accepted (active -> active)
VALID_TRANSITIONS_ClickInActive(s, t) ==
    CASE s = "idle"   /\ t = "newPaper" -> "alert"
      [] s = "idle"   /\ t = "click"    -> "active"
      [] s = "alert"  /\ t = "click"    -> "active"
      [] s = "alert"  /\ t = "timeout"  -> "idle"
      [] s = "alert"  /\ t = "dismiss"  -> "idle"
      [] s = "active" /\ t = "click"    -> "active"
      [] s = "active" /\ t = "timeout"  -> "idle"
      [] s = "active" /\ t = "dismiss"  -> "idle"
      [] OTHER -> Undefined

\* VALID_TRANSITIONS[s][t]
VALID_TRANSITIONS(s, t) ==
    CASE s = "idle"   /\ t = "newPaper" -> "alert"
      [] s = "idle"   /\ t = "click"    -> "active"
      [] s = "alert"  /\ t = "click"    -> "active"
      [] s = "alert"  /\ t = "timeout"  -> "idle"
      [] s = "alert"  /\ t = "dismiss"  -> "idle"
      [] s = "active" /\ t = "timeout"  -> "idle"
      [] s = "active" /\ t = "dismiss"  -> "idle"
      [] OTHER -> Undefined

\* getTargetState(trigger)
getTargetState(t) == VALID_TRANSITIONS(currentState, t)

\* canTransition(trigger)
canTransition(t) == VALID_TRANSITIONS(currentState, t) # Undefined

\* isIdleTimerRunning()
isIdleTimerRunning == idleTimer # NoTimer

\* clearTimeout(h) on the event loop's table: a no-op for a handle that is not pending
ClearTimeout(tab, h) == {e \in tab : e.id # h}

\* the handle setTimeout returns: none that is still stored or pending
NewHandle(tab, stored) ==
    CHOOSE h \in Handles : h # stored /\ (\A e \in tab : e.id # h)
        /\ \A k \in Handles : (k # stored /\ \A e \in tab : e.id # k) => h <= k

\* clearIdleTimer(): the pair <<_idleTimer, pending timeouts>> after the call
ClearedIdleTimer(timer, tab) ==
    IF timer # NoTimer THEN <<NoTimer, ClearTimeout(tab, timer)>> ELSE <<timer, tab>>

\* startIdleTimer(timeoutMs): clearIdleTimer(), then _idleTimer = setTimeout(..., timeoutMs)
StartedIdleTimer(timer, tab, ms) ==
    LET c == ClearedIdleTimer(timer, tab)
        h == NewHandle(c[2], c[1])
    IN  <<h, c[2] \cup {[id |-> h, left |-> ms]}>>

\* mutant of TimerAfterTransition: the timer is armed whatever the target state
TimerAfterTransition_AlwaysArm(target, timer, tab, ms) ==
    StartedIdleTimer(timer, tab, ms)

\* transition(), lines 84-90: clear any existing idle timer, start one if entering active
TimerAfterTransition(target, timer, tab, ms) ==
    LET c == ClearedIdleTimer(timer, tab)
    IN  IF target = "active" THEN StartedIdleTimer(c[1], c[2], ms) ELSE c

\* indexOf(callback): the first index holding cb, 0 when absent
IndexOf(cbs, cb) ==
    IF \E i \in 1..Len(cbs) : cbs[i] = cb
    THEN CHOOSE i \in 1..Len(cbs) : cbs[i] = cb /\ \A j \in 1..(i - 1) : cbs[j] # cb
    ELSE 0

\* splice(index, 1)
Splice(cbs, i) == [j \in 1..(Len(cbs) - 1) |-> IF j < i THEN cbs[j] ELSE cbs[j + 1]]

\* the unsubscribe closure of cb: indexOf, then splice when found
Unsubscribed(cbs, cb) ==
    IF IndexOf(cbs, cb) > 0 THEN Splice(cbs, IndexOf(cbs, cb)) ELSE cbs

\* what a callback does while it runs: nothing, or it calls one of the unsubscribe
\* closures client code holds (its own or another callback's)
CallbackActs(handles) == {"none"} \cup handles
AfterCallback(cbs, act) == IF act = "none" THEN cbs ELSE Unsubscribed(cbs, act)

\* for (const callback of this._callbacks) callback(this._currentState, previousState):
\* the array iterator reads index i of the live array, runs the callback, and goes on
\* to index i + 1 while that is within the array's current length.  The result is
\* the set of possible <<array afterwards, invocations made>>.
RECURSIVE NotifyFrom(_, _, _, _, _, _)
NotifyFrom(cbs, i, calls, new, prev, handles) ==
    IF i > Len(cbs)
    THEN {[cbs |-> cbs, calls |-> calls]}
    ELSE UNION { NotifyFrom(AfterCallback(cbs, act), i + 1,
                            Append(calls, [cb |-> cbs[i], state |-> new, prev |-> prev]),
                            new, prev, handles) : act \in CallbackActs(handles) }

\* _notifyStateChange(previousState)
NotifyStateChange(cbs, new, prev, handles) == NotifyFrom(cbs, 1, <<>>, new, prev, handles)

NoOp == [op |-> "none", trigger |-> "none", from |-> "none", ok |-> FALSE]
OtherOp(name) == [op |-> name, trigger |-> "none", from |-> "none", ok |-> FALSE]

\* mutant of TransitionBody: the timer is cleared before the table lookup
TransitionBody_ClearFirst(t, tab, name) ==
    LET target == VALID_TRANSITIONS(currentState, t)
        c == ClearedIdleTimer(idleTimer, tab)
    IN  IF target = Undefined
        THEN /\ smLast' = [op |-> name, trigger |-> t, from |-> currentState, ok |-> FALSE]
             /\ notified' = <<>>
             /\ idleTimer' = c[1]
             /\ smTimeouts' = c[2]
             /\ UNCHANGED <<currentState, callbacks, defaultIdleTimeout, unsubHandles,
                   handlesIssued, handlesCalled>>
        ELSE LET tm == TimerAfterTransition(target, idleTimer, tab, defaultIdleTimeout)
             IN  /\ currentState' = target
                 /\ idleTimer' = tm[1]
                 /\ smTimeouts' = tm[2]
                 /\ \E r \in NotifyStateChange(callbacks, target, currentState, unsubHandles) :
                        /\ notified' = r.calls
                        /\ callbacks' = r.cbs
                 /\ smLast' = [op |-> name, trigger |-> t, from |-> currentState, ok |-> TRUE]
                 /\ UNCHANGED <<defaultIdleTimeout, unsubHandles,
                   handlesIssued, handlesCalled>>

\* transition(trigger), run with the event loop's timeout table tab: lookup, early
\* return false, else set the state, clear / start the timer, notify, return true
TransitionBody(t, tab, name) ==
    LET target == VALID_TRANSITIONS(currentState, t)
    IN  IF target = Undefined
        THEN /\ smLast' = [op |-> name, trigger |-> t, from |-> currentState, ok |-> FALSE]
             /\ notified' = <<>>
             /\ smTimeouts' = tab
             /\ UNCHANGED <<currentState, callbacks, idleTimer, defaultIdleTimeout,
                            unsubHandles,
                   handlesIssued, handlesCalled>>
        ELSE LET tm == TimerAfterTransition(target, idleTimer, tab, defaultIdleTimeout)
             IN  /\ currentState' = target
                 /\ idleTimer' = tm[1]
                 /\ smTimeouts' = tm[2]
                 /\ \E r \in NotifyStateChange(callbacks, target, currentState, unsubHandles) :
                        /\ notified' = r.calls
                        /\ callbacks' = r.cbs
                 /\ smLast' = [op |-> name, trigger |-> t, from |-> currentState, ok |-> TRUE]
                 /\ UNCHANGED <<defaultIdleTimeout, unsubHandles,
                   handlesIssued, handlesCalled>>

\* a client calls transition(trigger)
Transition ==
    \E t \in TransitionTrigger : TransitionBody(t, smTimeouts, "transition")

\* the idle timer's setTimeout callback runs (the entry leaves the event loop's
\* table): this.transition('timeout')
FireIdleTimer ==
    \E e \in smTimeouts :
        /\ e.left <= 0
        /\ TransitionBody("timeout", smTimeouts \ {e}, "fire")

\* onStateChange(callback): push, and return the unsubscribe closure
OnStateChange ==
    \E cb \in CallbackIds :
        /\ Len(callbacks) < MaxCallbacks
        /\ handlesIssued[cb] < MaxHandles
        /\ callbacks' = Append(callbacks, cb)
        /\ unsubHandles' = unsubHandles \cup {cb}
        /\ handlesIssued' = [handlesIssued EXCEPT ![cb] = @ + 1]
        /\ UNCHANGED handlesCalled
        /\ notified' = <<>>
        /\ smLast' = OtherOp("onStateChange")
        /\ UNCHANGED <<currentState, idleTimer, defaultIdleTimeout, smTimeouts>>

\* the closure onStateChange returned is called: one that was not called before
\* (again = FALSE) or one that was.  The closures returned for one callback all run
\* the same code over the same callback.
Unsubscribe ==
    \E cb \in unsubHandles : \E again \in BOOLEAN :
        /\ IF again THEN handlesCalled[cb] > 0 ELSE handlesCalled[cb] < handlesIssued[cb]
        /\ callbacks' = Unsubscribed(callbacks, cb)
        /\ handlesCalled' = IF again THEN handlesCalled
                            ELSE [handlesCalled EXCEPT ![cb] = @ + 1]
        /\ notified' = <<>>
        /\ smLast' = [op |-> "unsubscribe", trigger |-> "none", from |-> "none", ok |-> FALSE,
                      cb |-> cb, again |-> again]
        /\ UNCHANGED <<currentState, idleTimer, defaultIdleTimeout, smTimeouts, unsubHandles,
                       handlesIssued>>

\* startIdleTimer(timeoutMs)
StartIdleTimer ==
    \E ms \in TimeoutChoices :
        LET tm == StartedIdleTimer(idleTimer, smTimeouts, ms)
        IN  /\ idleTimer' = tm[1]
            /\ smTimeouts' = tm[2]
            /\ notified' = <<>>
            /\ smLast' = OtherOp("startIdleTimer")
            /\ UNCHANGED <<currentState, callbacks, defaultIdleTimeout, unsubHandles,
                   handlesIssued, handlesCalled>>

\* clearIdleTimer()
ClearIdleTimer ==
    LET c == ClearedIdleTimer(idleTimer, smTimeouts)
    IN  /\ idleTimer' = c[1]
        /\ smTimeouts' = c[2]
        /\ notified' = <<>>
        /\ smLast' = OtherOp("clearIdleTimer")
        /\ UNCHANGED <<currentState, callbacks, defaultIdleTimeout, unsubHandles,
                   handlesIssued, handlesCalled>>

\* mutant of ResetIdleTimer: the timer is restarted in every state
ResetIdleTimer_AnyState ==
    LET tm == StartedIdleTimer(idleTimer, smTimeouts, defaultIdleTimeout)
    IN  /\ idleTimer' = tm[1]
        /\ smTimeouts' = tm[2]
        /\ notified' = <<>>
        /\ smLast' = OtherOp("resetIdleTimer")
        /\ UNCHANGED <<currentState, callbacks, defaultIdleTimeout, unsubHandles,
                   handlesIssued, handlesCalled>>

\* resetIdleTimer(): restart only while active
ResetIdleTimer ==
    LET tm == IF currentState = "active"
              THEN StartedIdleTimer(idleTimer, smTimeouts, defaultIdleTimeout)
              ELSE <<idleTimer, smTimeouts>>
    IN  /\ idleTimer' = tm[1]
        /\ smTimeouts' = tm[2]
        /\ notified' = <<>>
        /\ smLast' = OtherOp("resetIdleTimer")
        /\ UNCHANGED <<currentState, callbacks, defaultIdleTimeout, unsubHandles,
                   handlesIssued, handlesCalled>>

\* setDefaultIdleTimeout(timeoutMs)
SetDefaultIdleTimeout ==
    \E ms \in TimeoutChoices :
        /\ defaultIdleTimeout' = ms
        /\ notified' = <<>>
        /\ smLast' = OtherOp("setDefaultIdleTimeout")
        /\ UNCHANGED <<currentState, callbacks, idleTimer, smTimeouts, unsubHandles,
                   handlesIssued, handlesCalled>>

\* mutant of ForceState: the idle timer is cleared as transition() clears it
ForceState_ClearTimer ==
    \E s \in AvatarState :
        LET c == ClearedIdleTimer(idleTimer, smTimeouts)
        IN  /\ currentState' = s
            /\ idleTimer' = c[1]
            /\ smTimeouts' = c[2]
            /\ notified' = <<>>
            /\ smLast' = [op |-> "forceState", trigger |-> "none", from |-> "none",
                          ok |-> FALSE, state |-> s]
            /\ UNCHANGED <<callbacks, defaultIdleTimeout, unsubHandles,
                           handlesIssued, handlesCalled>>

\* forceState(state)
ForceState ==
    \E s \in AvatarState :
        /\ currentState' = s
        /\ notified' = <<>>
        /\ smLast' = [op |-> "forceState", trigger |-> "none", from |-> "none",
                      ok |-> FALSE, state |-> s]
        /\ UNCHANGED <<callbacks, idleTimer, defaultIdleTimeout, smTimeouts, unsubHandles,
                   handlesIssued, handlesCalled>>

\* dispose()
Dispose ==
    LET c == ClearedIdleTimer(idleTimer, smTimeouts)
    IN  /\ idleTimer' = c[1]
        /\ smTimeouts' = c[2]
        /\ callbacks' = <<>>
        /\ notified' = <<>>
        /\ smLast' = OtherOp("dispose")
        /\ UNCHANGED <<currentState, defaultIdleTimeout, unsubHandles,
                   handlesIssued, handlesCalled>>

\* TickMs milliseconds pass with no timeout due
SmTick ==
    /\ smTimeouts # {}
    /\ \A e \in smTimeouts : e.left > 0
    /\ smTimeouts' = {[id |-> e.id, left |-> e.left - TickMs] : e \in smTimeouts}
    /\ notified' = <<>>
    /\ smLast' = OtherOp("tick")
    /\ UNCHANGED <<currentState, callbacks, idleTimer, defaultIdleTimeout, unsubHandles,
                   handlesIssued, handlesCalled>>

\* new StateMachine(initialState)
SmInit ==
    /\ currentState \in AvatarState
    /\ callbacks = <<>>
    /\ idleTimer = NoTimer
    /\ defaultIdleTimeout = DEFAULT_IDLE_TIMEOUT
    /\ smTimeouts = {}
    /\ unsubHandles = {}
    /\ handlesIssued = [cb \in CallbackIds |-> 0]
    /\ handlesCalled = [cb \in CallbackIds |-> 0]
    /\ notified = <<>>
    /\ smLast = NoOp

\* a step of the StateMachine leaves the other subsystems alone
SmFrame == UNCHANGED <<nqVars, hVars, chatVars, qcVars, homeVars, appVars>>

SmNext ==
    \/ Transition /\ SmFrame
    \/ FireIdleTimer /\ SmFrame
    \/ OnStateChange /\ SmFrame
    \/ Unsubscribe /\ SmFrame
    \/ StartIdleTimer /\ SmFrame
    \/ ClearIdleTimer /\ SmFrame
    \/ ResetIdleTimer /\ SmFrame
    \/ SetDefaultIdleTimeout /\ SmFrame
    \/ ForceState /\ SmFrame
    \/ Dispose /\ SmFrame
    \/ SmTick /\ SmFrame

(***************************************************************************)
(* useBubbleNotifier.ts: class NotificationQueue                           *)
(***************************************************************************)
\* BubbleMessage: the fields the queue logic can depend on (identity and score)
Scores == {1, 2}
MsgIds == 1..MaxMessages
BubbleMessage == [id : MsgIds, score : Scores]
\* null
NullMsg == [id |-> 0, score |-> 0]

\* the arrays of k new messages with ids n+1 .. n+k
NewMessages(n, k) ==
    {ms \in [1..k -> BubbleMessage] : \A i \in 1..k : ms[i].id = n + i}

\* enqueue(message)
nqEnqueue(st, m) ==
    IF st.current = NullMsg
    THEN [current |-> m, queue |-> st.queue]
    ELSE [current |-> st.current, queue |-> Append(st.queue, m)]

\* enqueueAll(messages): for (const message of messages) this.enqueue(message)
RECURSIVE nqEnqueueAll(_, _)
nqEnqueueAll(st, ms) ==
    IF ms = <<>> THEN st ELSE nqEnqueueAll(nqEnqueue(st, Head(ms)), Tail(ms))

\* mutant of nqDismiss: with nothing pending the displayed message stays
nqDismiss_KeepCurrent(st) ==
    IF Len(st.queue) > 0
    THEN [current |-> Head(st.queue), queue |-> Tail(st.queue)]
    ELSE st

\* mutant of nqDismiss: the newest pending message is taken (pop() for shift())
nqDismiss_Pop(st) ==
    IF Len(st.queue) > 0
    THEN [current |-> st.queue[Len(st.queue)], queue |-> SubSeq(st.queue, 1, Len(st.queue) - 1)]
    ELSE [current |-> NullMsg, queue |-> st.queue]

\* dismiss(): the state after the call; the call returns its current
nqDismiss(st) ==
    IF Len(st.queue) > 0
    THEN [current |-> Head(st.queue), queue |-> Tail(st.queue)]
    ELSE [current |-> NullMsg, queue |-> st.queue]

\* clear()
nqClear(st) == [current |-> NullMsg, queue |-> <<>>]

\* getAllInOrder()
getAllInOrder(st) ==
    IF st.current = NullMsg THEN <<>> ELSE <<st.current>> \o st.queue

\* the fields of the instance
nqState == [current |-> nqCurrent, queue |-> nqQueue]

\* the class's fields become st; a message that becomes current is recorded as shown
nqCommit(st, name, ret) ==
    /\ nqCurrent' = st.current
    /\ nqQueue' = st.queue
    /\ nqShown' = IF st.current # NullMsg /\ st.current # nqCurrent
                  THEN Append(nqShown, st.current) ELSE nqShown
    /\ nqLast' = [op |-> name, ret |-> ret]

NqEnqueue ==
    \E ms \in NewMessages(Len(nqArrived), 1) :
        /\ Len(nqArrived) + 1 <= MaxMessages
        /\ nqCommit(nqEnqueue(nqState, ms[1]), "enqueue", NullMsg)
        /\ nqArrived' = nqArrived \o ms
        /\ UNCHANGED nqCleared

NqEnqueueAll ==
    \E k \in 0..MaxBatch : \E ms \in NewMessages(Len(nqArrived), k) :
        /\ Len(nqArrived) + k <= MaxMessages
        /\ nqCommit(nqEnqueueAll(nqState, ms), "enqueueAll", NullMsg)
        /\ nqArrived' = nqArrived \o ms
        /\ UNCHANGED nqCleared

NqDismiss ==
    /\ nqCommit(nqDismiss(nqState), "dismiss", nqDismiss(nqState).current)
    /\ UNCHANGED <<nqArrived, nqCleared>>

NqClear ==
    /\ nqCommit(nqClear(nqState), "clear", NullMsg)
    /\ nqCleared' = TRUE
    /\ UNCHANGED nqArrived

\* new NotificationQueue()
NqInit ==
    /\ nqCurrent = NullMsg
    /\ nqQueue = <<>>
    /\ nqArrived = <<>>
    /\ nqShown = <<>>
    /\ nqCleared = FALSE
    /\ nqLast = [op |-> "none", ret |-> NullMsg]

\* a step of the NotificationQueue leaves the other subsystems alone
NqFrame == UNCHANGED <<smVars, hVars, chatVars, qcVars, homeVars, appVars>>

NqNext ==
    \/ NqEnqueue /\ NqFrame
    \/ NqEnqueueAll /\ NqFrame
    \/ NqDismiss /\ NqFrame
    \/ NqClear /\ NqFrame

(***************************************************************************)
(* useBubbleNotifier.ts: hook useBubbleNotifier                            *)
(*                                                                         *)
(* React state: a callback created by a render closes over that render's   *)
(* currentMessage; setQueue / setCurrentMessage queue updates that the     *)
(* next render applies in order.  An updater function passed to setQueue   *)
(* runs at the call when the component has no update pending (React's      *)
(* eager computation) and during the next render otherwise; which of the   *)
(* two happens when nothing is pending is left open.                       *)
(***************************************************************************)
\* a value passed to setQueue
SetValue(q) == [kind |-> "set", msgs |-> q, cur |-> NullMsg]
\* the updater functions passed to setQueue, with what they close over
ShowNextUpdate == [kind |-> "showNext", msgs |-> <<>>, cur |-> NullMsg]
EnqueueUpdate(m, cur) == [kind |-> "enqueue", msgs |-> <<m>>, cur |-> cur]
EnqueueAllUpdate(ms, cur) == [kind |-> "enqueueAll", msgs |-> ms, cur |-> cur]

\* showNext's updater: the new queue and the values it passes to setCurrentMessage
ShowNextUpdater(prevQueue) ==
    IF Len(prevQueue) = 0
    THEN [queue |-> prevQueue, sets |-> <<NullMsg>>]
    ELSE [queue |-> Tail(prevQueue), sets |-> <<Head(prevQueue)>>]

\* mutant of EnqueueUpdater: the message is appended whatever is displayed
EnqueueUpdater_AlwaysAppend(prevQueue, m, currentMessage) ==
    [queue |-> Append(prevQueue, m), sets |-> <<>>]

\* enqueue's updater; currentMessage is the value the callback closed over
EnqueueUpdater(prevQueue, m, currentMessage) ==
    IF currentMessage = NullMsg /\ Len(prevQueue) = 0
    THEN [queue |-> prevQueue, sets |-> <<m>>]
    ELSE [queue |-> Append(prevQueue, m), sets |-> <<>>]

\* enqueueAll's updater; currentMessage is the value the callback closed over
EnqueueAllUpdater(prevQueue, ms, currentMessage) ==
    IF currentMessage = NullMsg /\ Len(prevQueue) = 0
    THEN [queue |-> Tail(ms), sets |-> <<Head(ms)>>]
    ELSE [queue |-> prevQueue \o ms, sets |-> <<>>]

\* one queued update of the queue state applied to prevQueue
RunUpdate(u, prevQueue) ==
    CASE u.kind = "set"        -> [queue |-> u.msgs, sets |-> <<>>]
      [] u.kind = "showNext"   -> ShowNextUpdater(prevQueue)
      [] u.kind = "enqueue"    -> EnqueueUpdater(prevQueue, u.msgs[1], u.cur)
      [] u.kind = "enqueueAll" -> EnqueueAllUpdater(prevQueue, u.msgs, u.cur)

\* a render applies the queued updates of the queue state in order; the
\* setCurrentMessage calls the updaters make are collected in order
RECURSIVE ProcessQueueUpdates(_, _, _)
ProcessQueueUpdates(q, upds, sets) ==
    IF upds = <<>>
    THEN [queue |-> q, sets |-> sets]
    ELSE LET r == RunUpdate(Head(upds), q)
         IN  ProcessQueueUpdates(r.queue, Tail(upds), sets \o r.sets)

\* no update is pending on the component
NothingPending == hQUpd = <<>> /\ hCUpd = <<>>

\* room for one more handler call before the next render
RoomInBatch == Len(hQUpd) + Len(hCUpd) < MaxPending

\* setQueue(updater): run at the call (eager) or queued for the render
SetQueueWithUpdater(u) ==
    \/ /\ NothingPending
       /\ LET r == RunUpdate(u, hQueue)
          IN  /\ hQUpd' = IF r.queue = hQueue THEN <<>> ELSE <<SetValue(r.queue)>>
              /\ hCUpd' = r.sets
    \/ /\ hQUpd' = Append(hQUpd, u)
       /\ hCUpd' = hCUpd

\* clearTimer(): the pair <<timerRef.current, pending timeouts>> after the call
ClearedTimer(ref, tab) ==
    IF ref # NoTimer THEN <<NoTimer, ClearTimeout(tab, ref)>> ELSE <<ref, tab>>

\* mutant of AutoDismissEffect: the timeout is not tested (a timeout of 0 arms a timer)
AutoDismissEffect_AnyTimeout(ref, tab, currentMessage, timeout) ==
    LET c == ClearedTimer(ref, tab)
    IN  IF currentMessage # NullMsg
        THEN LET h == NewHandle(c[2], c[1])
             IN  <<h, c[2] \cup {[id |-> h, left |-> timeout]}>>
        ELSE c

\* the auto-dismiss effect, run after a render that changed currentMessage: the
\* previous run's cleanup (clearTimer), then clearTimer and setTimeout
AutoDismissEffect(ref, tab, currentMessage, timeout) ==
    LET c == ClearedTimer(ref, tab)
    IN  IF currentMessage # NullMsg /\ timeout > 0
        THEN LET h == NewHandle(c[2], c[1])
             IN  <<h, c[2] \cup {[id |-> h, left |-> timeout]}>>
        ELSE c

HOp(name, arg) == [op |-> name, arg |-> arg]

\* enqueue(message)
HEnqueue ==
    \E ms \in NewMessages(hCreated, 1) :
        /\ hCreated + 1 <= MaxMessages
        /\ RoomInBatch
        /\ SetQueueWithUpdater(EnqueueUpdate(ms[1], hCurrent))
        /\ hCreated' = hCreated + 1
        /\ hLive' = hLive \cup {ms[1].id}
        /\ hLast' = HOp("enqueue", ms[1].id)
        /\ UNCHANGED <<hCurrent, hQueue, hTimerRef, hTimeouts, hAutoDismiss, hShown>>

\* enqueueAll(messages)
HEnqueueAll ==
    \E k \in 0..MaxBatch : \E ms \in NewMessages(hCreated, k) :
        /\ hCreated + k <= MaxMessages
        /\ RoomInBatch
        /\ IF k = 0
           THEN UNCHANGED <<hQUpd, hCUpd>>
           ELSE SetQueueWithUpdater(EnqueueAllUpdate(ms, hCurrent))
        /\ hCreated' = hCreated + k
        /\ hLive' = hLive \cup {ms[i].id : i \in 1..k}
        /\ hLast' = HOp("enqueueAll", k)
        /\ UNCHANGED <<hCurrent, hQueue, hTimerRef, hTimeouts, hAutoDismiss, hShown>>

\* dismiss(): clearTimer(); showNext()
DismissBody(ref, tab, name, arg) ==
    LET c == ClearedTimer(ref, tab)
    IN  /\ hTimerRef' = c[1]
        /\ hTimeouts' = c[2]
        /\ SetQueueWithUpdater(ShowNextUpdate)
        /\ hLast' = HOp(name, arg)
        /\ UNCHANGED <<hCurrent, hQueue, hAutoDismiss, hCreated, hLive, hShown>>

\* dismiss() called by the client
HDismiss ==
    /\ RoomInBatch
    /\ DismissBody(hTimerRef, hTimeouts, "dismiss", 0)

\* clearAll(): clearTimer(); setQueue([]); setCurrentMessage(null)
HClearAll ==
    LET c == ClearedTimer(hTimerRef, hTimeouts)
    IN  /\ RoomInBatch
        /\ hTimerRef' = c[1]
        /\ hTimeouts' = c[2]
        /\ hQUpd' = Append(hQUpd, SetValue(<<>>))
        /\ hCUpd' = Append(hCUpd, NullMsg)
        /\ hLive' = {}
        /\ hLast' = HOp("clearAll", 0)
        /\ UNCHANGED <<hCurrent, hQueue, hAutoDismiss, hCreated, hShown>>

\* handleBubbleClick(paperId) for the displayed bubble: clearTimer();
\* onBubbleClick?.(paperId); showNext()
HHandleBubbleClick ==
    /\ hCurrent # NullMsg
    /\ RoomInBatch
    /\ DismissBody(hTimerRef, hTimeouts, "click", hCurrent.id)

\* Home's handleBubbleClick(paperId) (app/page.tsx), the onBubbleClick handler the
\* page gives the displayed bubble: clearAll(); setCurrentPaperId(paperId); await
\* showMainWindow().  Only clearAll() touches the notifier.
HomeHandleBubbleClick ==
    LET c == ClearedTimer(hTimerRef, hTimeouts)
    IN  /\ hCurrent # NullMsg
        /\ RoomInBatch
        /\ hTimerRef' = c[1]
        /\ hTimeouts' = c[2]
        /\ hQUpd' = Append(hQUpd, SetValue(<<>>))
        /\ hCUpd' = Append(hCUpd, NullMsg)
        /\ hLive' = {}
        /\ hLast' = HOp("homeClick", hCurrent.id)
        /\ UNCHANGED <<hCurrent, hQueue, hAutoDismiss, hCreated, hShown>>

\* the auto-dismiss setTimeout callback runs (its entry leaves the event loop's
\* table): dismiss().  A timer runs in a task of its own, after the pending render.
HFireTimer ==
    \E e \in hTimeouts :
        /\ e.left <= 0
        /\ NothingPending
        /\ DismissBody(hTimerRef, hTimeouts \ {e}, "fire", 0)

\* the state a render commits: the queued updates of the queue state are applied in
\* order; the setCurrentMessage calls queued by the handlers come first, those the
\* updaters make during the render after them; the last value set wins
HPendingOutcome ==
    LET r == ProcessQueueUpdates(hQueue, hQUpd, <<>>)
        sets == hCUpd \o r.sets
    IN  [queue |-> r.queue, cur |-> IF sets = <<>> THEN hCurrent ELSE sets[Len(sets)]]

\* React renders the component: the queued updates are applied, the callbacks are
\* re-created over the new currentMessage, and the auto-dismiss effect runs if
\* currentMessage changed
HRender ==
    /\ ~NothingPending
    /\ LET cur == HPendingOutcome.cur
           tm == IF cur # hCurrent
                 THEN AutoDismissEffect(hTimerRef, hTimeouts, cur, hAutoDismiss)
                 ELSE <<hTimerRef, hTimeouts>>
       IN  /\ hQueue' = HPendingOutcome.queue
           /\ hCurrent' = cur
           /\ hQUpd' = <<>>
           /\ hCUpd' = <<>>
           /\ hTimerRef' = tm[1]
           /\ hTimeouts' = tm[2]
           /\ hShown' = IF cur # NullMsg THEN hShown \cup {cur.id} ELSE hShown
           /\ hLast' = HOp("render", 0)
           /\ UNCHANGED <<hAutoDismiss, hCreated, hLive>>

\* TickMs milliseconds pass with no timeout due
HTick ==
    /\ NothingPending
    /\ hTimeouts # {}
    /\ \A e \in hTimeouts : e.left > 0
    /\ hTimeouts' = {[id |-> e.id, left |-> e.left - TickMs] : e \in hTimeouts}
    /\ hLast' = HOp("tick", 0)
    /\ UNCHANGED <<hCurrent, hQueue, hQUpd, hCUpd, hTimerRef, hAutoDismiss,
                   hCreated, hLive, hShown>>

\* the first render of useBubbleNotifier(options)
HInit ==
    /\ hCurrent = NullMsg
    /\ hQueue = <<>>
    /\ hQUpd = <<>>
    /\ hCUpd = <<>>
    /\ hTimerRef = NoTimer
    /\ hTimeouts = {}
    /\ hAutoDismiss \in {0, DEFAULT_AUTO_DISMISS_TIMEOUT}
    /\ hCreated = 0
    /\ hLive = {}
    /\ hShown = {}
    /\ hLast = HOp("none", 0)

\* a step of the hook leaves the other subsystems alone
HFrame == UNCHANGED <<smVars, nqVars, chatVars, qcVars, homeVars, appVars>>

HNext ==
    \/ HEnqueue /\ HFrame
    \/ HEnqueueAll /\ HFrame
    \/ HDismiss /\ HFrame
    \/ HClearAll /\ HFrame
    \/ HHandleBubbleClick /\ HFrame
    \/ HomeHandleBubbleClick /\ HFrame
    \/ HFireTimer /\ HFrame
    \/ HRender /\ HFrame
    \/ HTick /\ HFrame

(***************************************************************************)
(* Chat/types.ts and Chat/useChatInterface.ts                              *)
(*                                                                         *)
(* A text is a sequence of characters.  The Chinese literals of the source *)
(* are written one ASCII token per character (commands) or as one token    *)
(* (canned replies).                                                       *)
(*                                                                         *)
(* Every call of the hook's callbacks is made from the latest render, so a *)
(* callback closes over the committed context; the part of sendMessage /   *)
(* handleQuickCommand after the await runs later, with the context the     *)
(* call closed over.                                                       *)
(***************************************************************************)
\* context === null
NullCtx == [null |-> TRUE]
\* pdfUrl / errorMessage undefined
NoUrl == "undefined"
NoError == "undefined"

\* QUICK_COMMANDS: '看公式', '看代码链接'
CMD_FORMULA == <<"kan", "gong", "shi">>
CMD_CODE_LINK == <<"kan", "dai", "ma", "lian", "jie">>
QUICK_COMMANDS == {CMD_FORMULA, CMD_CODE_LINK}

\* sendMessage: '请求失败，请稍后重试。'
LLM_FAILED == <<"LLM_REQUEST_FAILED_RETRY_LATER">>
\* sendMessage: '聊天功能需要连接后端服务。'
LLM_NO_BACKEND == <<"CHAT_NEEDS_BACKEND">>
\* handleQuickCommand: '快捷指令执行失败，请稍后重试。'
QUICK_FAILED == <<"QUICK_COMMAND_FAILED_RETRY_LATER">>
\* handleQuickCommand: '快捷指令功能需要连接后端服务。'
QUICK_NO_BACKEND == <<"QUICK_COMMAND_NEEDS_BACKEND">>
\* what the collaborators answer when they succeed
LLM_ANSWER == <<"ANSWER">>
QUICK_ANSWER == <<"QUICK_ANSWER">>

\* String.prototype.trim removes white space and line terminators
WhiteSpace == {" ", "\t", "\n"}
IsSpace(c) == c \in WhiteSpace
RECURSIVE TrimStart(_)
TrimStart(t) == IF t # <<>> /\ IsSpace(Head(t)) THEN TrimStart(Tail(t)) ELSE t
RECURSIVE TrimEnd(_)
TrimEnd(t) ==
    IF t # <<>> /\ IsSpace(t[Len(t)]) THEN TrimEnd(SubSeq(t, 1, Len(t) - 1)) ELSE t
Trim(t) == TrimEnd(TrimStart(t))

\* the texts a user submits
Contents == {<<>>, <<" ">>, <<"h", "i", " ">>}

\* the arguments open() is called with
OpenInputs ==
    { [paperId |-> "p1", paperTitle |-> "T1", abstract |-> <<"X">>, pdfUrl |-> NoUrl],
      [paperId |-> "p2", paperTitle |-> "T2", abstract |-> <<"Y", " ", "Z">>, pdfUrl |-> "url2"] }

\* createChatContext's default processingStatus (progress in hundredths)
DefaultStatus ==
    [isDownloading |-> FALSE, isProcessing |-> FALSE, isComplete |-> FALSE, progress |-> 0,
     errorMessage |-> NoError, totalChunks |-> 0, processedChunks |-> 0]

\* the status snapshots updateProcessingStatus is called with
StatusChoices ==
    { [isDownloading |-> FALSE, isProcessing |-> FALSE, isComplete |-> TRUE, progress |-> 100,
       errorMessage |-> NoError, totalChunks |-> 2, processedChunks |-> 2] }

\* createChatMessage(role, content): id and timestamp are read from the environment;
\* re is not a field of the source: it names the user message an assistant message
\* was created for (0 for a user message)
createChatMessage(role, content, id, now, re) ==
    [id |-> id, role |-> role, content |-> content, timestamp |-> now, re |-> re]

\* mutant of createChatContext: the title is stored as the abstract
createChatContext_SwapArgs(paperId, paperTitle, abstract, pdfUrl) ==
    [paperId |-> paperId, paperTitle |-> paperTitle, abstract |-> <<paperTitle>>,
     pdfUrl |-> pdfUrl, history |-> <<>>, isPdfProcessed |-> FALSE,
     processingStatus |-> DefaultStatus]

\* createChatContext(paperId, paperTitle, abstract, pdfUrl)
createChatContext(paperId, paperTitle, abstract, pdfUrl) ==
    [paperId |-> paperId, paperTitle |-> paperTitle, abstract |-> abstract,
     pdfUrl |-> pdfUrl, history |-> <<>>, isPdfProcessed |-> FALSE,
     processingStatus |-> DefaultStatus]

\* validateChatContextState(context, isOpen)
validateChatContextState(ctx, open) ==
    IF ~open /\ ctx = NullCtx
    THEN [hasAbstract |-> FALSE, historyInOrder |-> TRUE, isCleared |-> TRUE, isValid |-> TRUE]
    ELSE IF open /\ ctx # NullCtx
    THEN LET hasAbstract == Len(Trim(ctx.abstract)) > 0
             historyInOrder ==
                 \A i \in 2 .. Len(ctx.history) :
                     ~(ctx.history[i].timestamp < ctx.history[i - 1].timestamp)
         IN  [hasAbstract |-> hasAbstract, historyInOrder |-> historyInOrder,
              isCleared |-> FALSE, isValid |-> hasAbstract /\ historyInOrder]
    ELSE [hasAbstract |-> FALSE, historyInOrder |-> FALSE, isCleared |-> FALSE,
          isValid |-> FALSE]

\* addMessageToHistory(context, message)
addMessageToHistory(ctx, message) ==
    [ctx EXCEPT !.history = Append(ctx.history, message)]

\* clearChatContext()
clearChatContext == NullCtx

\* mutant of ResponseContent: one fallback text for both kinds of request
ResponseContent_OneFallback(kind, outcome) ==
    IF outcome = "reject" THEN LLM_FAILED
    ELSE IF kind = "send" THEN LLM_ANSWER ELSE QUICK_ANSWER

\* responseContent after the await: the collaborator's answer, or the catch
\* block's fixed text
ResponseContent(kind, outcome) ==
    IF outcome = "reject"
    THEN (IF kind = "send" THEN LLM_FAILED ELSE QUICK_FAILED)
    ELSE (IF kind = "send" THEN LLM_ANSWER ELSE QUICK_ANSWER)

\* responseContent when the collaborator was not supplied
NoBackendContent(kind) == IF kind = "send" THEN LLM_NO_BACKEND ELSE QUICK_NO_BACKEND

\* the last step: its name; for an exchange its kind, the collaborator's outcome and how
\* the call's promise stands (pending | resolved | rejected | null); for a settled call,
\* whether it was made on an empty history, whether the session was open when it
\* settled and whether close() was called after it was made; for a call, whether its
\* argument was empty after trimming; for open, the paper and the length of the
\* history it replaced
ChatOp(name) ==
    [op |-> name, kind |-> "none", outcome |-> "none", ret |-> "none",
     fresh |-> FALSE, wasOpen |-> FALSE, stale |-> FALSE, blank |-> FALSE, prevLen |-> 0,
     prevPaper |-> "none"]

\* new Date(): the wall clock read at or after an earlier reading (chatClock is the
\* last reading; time may or may not have advanced since)
DateNow(last) == {now \in last .. last + 1 : now <= MaxChatClock}

\* a message id is left for the request's user message and for every reply still owed
RoomForExchange == chatMsgCount + Cardinality(chatReqs) + 2 <= MaxChatMsgs

\* open(paperId, paperTitle, abstract, pdfUrl); the onStartPDFProcessing call it
\* starts when a pdfUrl is given is not awaited and touches none of the hook's state
ChatOpen ==
    \E in \in OpenInputs :
        /\ chatGen < MaxOpens
        /\ context' = createChatContext(in.paperId, in.paperTitle, in.abstract, in.pdfUrl)
        /\ isOpen' = TRUE
        /\ chatGen' = chatGen + 1
        /\ chatBase' = chatMsgCount
        /\ chatInput' = in
        /\ chatSent' = {}
        /\ chatLast' = [ChatOp("open") EXCEPT
                          !.prevLen = IF context = NullCtx THEN 0 ELSE Len(context.history),
                          !.prevPaper = IF context = NullCtx THEN "none" ELSE context.paperId]
        /\ UNCHANGED <<isLoading, chatOpts, chatReqs, chatMsgCount, chatClock, chatClosed>>

\* close()
ChatClose ==
    /\ isOpen' = FALSE
    /\ context' = clearChatContext
    /\ chatSent' = {}
    /\ chatClosed' = chatMsgCount
    /\ chatLast' = ChatOp("close")
    /\ UNCHANGED <<isLoading, chatOpts, chatReqs, chatMsgCount, chatClock, chatGen,
                   chatBase, chatInput>>

\* sendMessage / handleQuickCommand up to the await (or to the end when the
\* collaborator was not supplied)
StartExchange(kind, content, supplied) ==
    \E now \in DateNow(chatClock) :
        LET userMessage == createChatMessage("user", content, chatMsgCount + 1, now, 0)
            contextWithUserMsg == addMessageToHistory(context, userMessage)
        IN  /\ RoomForExchange
            /\ chatSent' = IF kind = "send" THEN chatSent \cup {userMessage.id} ELSE chatSent
            /\ IF supplied
               THEN /\ context' = contextWithUserMsg
                    /\ isLoading' = TRUE
                    /\ chatMsgCount' = chatMsgCount + 1
                    /\ chatClock' = now
                    /\ chatReqs' = chatReqs \cup
                          {[id |-> userMessage.id, kind |-> kind, ctx |-> contextWithUserMsg,
                            gen |-> chatGen]}
                    /\ chatLast' = [ChatOp("call") EXCEPT !.kind = kind, !.ret = "pending"]
               ELSE \E later \in DateNow(now) :
                    LET assistantMessage ==
                            createChatMessage("assistant", NoBackendContent(kind),
                                              chatMsgCount + 2, later, userMessage.id)
                    IN  /\ context' = addMessageToHistory(contextWithUserMsg, assistantMessage)
                        /\ isLoading' = FALSE
                        /\ chatMsgCount' = chatMsgCount + 2
                        /\ chatClock' = later
                        /\ chatReqs' = chatReqs
                        /\ chatLast' = [ChatOp("call") EXCEPT !.kind = kind, !.ret = "resolved"]
            /\ UNCHANGED <<isOpen, chatOpts, chatGen, chatBase, chatInput, chatClosed>>

\* the early return null of sendMessage / handleQuickCommand
RejectedCall(kind, content) ==
    /\ chatLast' = [ChatOp("call") EXCEPT !.kind = kind, !.ret = "null",
                                          !.blank = (Trim(content) = <<>>)]
    /\ UNCHANGED <<context, isOpen, isLoading, chatOpts, chatReqs, chatMsgCount, chatClock,
                   chatGen, chatBase, chatInput, chatClosed, chatSent>>

\* sendMessage(content)
ChatSendMessage ==
    \E content \in Contents :
        IF context = NullCtx \/ Trim(content) = <<>>
        THEN RejectedCall("send", content)
        ELSE StartExchange("send", content, chatOpts.llm)

\* handleQuickCommand(command)
ChatHandleQuickCommand ==
    \E command \in QUICK_COMMANDS :
        IF context = NullCtx
        THEN RejectedCall("quick", command)
        ELSE StartExchange("quick", command, chatOpts.quick)

\* the awaited collaborator settles and the suspended call runs to its end:
\* the assistant message is appended to the context the call closed over
SettleExchange(req, responseContent, outcome, now) ==
    LET assistantMessage ==
            createChatMessage("assistant", responseContent, chatMsgCount + 1, now, req.id)
        finalContext == addMessageToHistory(req.ctx, assistantMessage)
    IN  /\ context' = finalContext
        /\ isLoading' = FALSE
        /\ chatMsgCount' = chatMsgCount + 1
        /\ chatClock' = now
        /\ chatReqs' = chatReqs \ {req}
        /\ chatLast' = [ChatOp("settle") EXCEPT
                          !.kind = req.kind, !.outcome = outcome, !.ret = "resolved",
                          !.fresh = (Len(req.ctx.history) = 1), !.wasOpen = isOpen,
                          !.stale = (req.id <= chatClosed)]
        /\ UNCHANGED <<isOpen, chatOpts, chatGen, chatBase, chatInput, chatClosed,
                       chatSent>>

\* a collaborator that resolves with an answer or rejects
ChatSettle ==
    \E req \in chatReqs : \E outcome \in {"ok", "reject"} : \E now \in DateNow(chatClock) :
        SettleExchange(req, ResponseContent(req.kind, outcome), outcome, now)

\* clearHistory()
ChatClearHistory ==
    /\ context' = IF context # NullCtx THEN [context EXCEPT !.history = <<>>] ELSE context
    /\ chatSent' = {}
    /\ chatLast' = ChatOp("clearHistory")
    /\ UNCHANGED <<isOpen, isLoading, chatOpts, chatReqs, chatMsgCount, chatClock, chatGen,
                   chatBase, chatInput, chatClosed>>

\* startPDFProcessing(): it awaits onStartPDFProcessing(context.paperId,
\* context.pdfUrl) when the context has a pdfUrl and the collaborator is supplied, and
\* logs a rejection; it sets none of the hook's state
ChatStartPDFProcessing ==
    /\ chatLast' = ChatOp("startPDFProcessing")
    /\ UNCHANGED <<context, isOpen, isLoading, chatOpts, chatReqs, chatMsgCount, chatClock,
                   chatGen, chatBase, chatInput, chatClosed, chatSent>>

\* updateProcessingStatus(status)
ChatUpdateProcessingStatus ==
    \E status \in StatusChoices :
        /\ context' = IF context # NullCtx
                      THEN [context EXCEPT !.processingStatus = status,
                                           !.isPdfProcessed = status.isComplete]
                      ELSE context
        /\ chatLast' = ChatOp("updateProcessingStatus")
        /\ UNCHANGED <<isOpen, isLoading, chatOpts, chatReqs, chatMsgCount, chatClock,
                       chatGen, chatBase, chatInput, chatClosed, chatSent>>

\* the first render of useChatInterface(options)
ChatInit ==
    /\ context = NullCtx
    /\ isOpen = FALSE
    /\ isLoading = FALSE
    /\ chatOpts \in {[llm |-> b, quick |-> b] : b \in BOOLEAN}
    /\ chatReqs = {}
    /\ chatMsgCount = 0
    /\ chatClock = 0
    /\ chatGen = 0
    /\ chatBase = 0
    /\ chatClosed = 0
    /\ chatInput = [paperId |-> "none", paperTitle |-> "none", abstract |-> <<>>, pdfUrl |-> NoUrl]
    /\ chatSent = {}
    /\ chatLast = ChatOp("none")

\* a step of the chat session leaves the other subsystems alone
ChatFrame == UNCHANGED <<smVars, nqVars, hVars, qcVars, homeVars, appVars>>

ChatNext ==
    \/ ChatOpen /\ ChatFrame
    \/ ChatClose /\ ChatFrame
    \/ ChatSendMessage /\ ChatFrame
    \/ ChatHandleQuickCommand /\ ChatFrame
    \/ ChatSettle /\ ChatFrame
    \/ ChatClearHistory /\ ChatFrame
    \/ ChatUpdateProcessingStatus /\ ChatFrame

(***************************************************************************)
(* Chat/quickCommands.ts                                                   *)
(***************************************************************************)
\* QUICK_COMMAND_DEFINITIONS: the command fields, in the array's order
QUICK_COMMAND_DEFINITIONS == <<CMD_FORMULA, CMD_CODE_LINK>>

\* null as a return value of matchQuickCommand (no command is the empty text)
NullCmd == <<>>

\* for (const def of defs) if (def.command === trimmed) return def.command; return null
RECURSIVE FirstMatch(_, _)
FirstMatch(defs, trimmed) ==
    IF defs = <<>> THEN NullCmd
    ELSE IF Head(defs) = trimmed THEN Head(defs)
    ELSE FirstMatch(Tail(defs), trimmed)

\* mutant of matchQuickCommand: the input is compared as given (no trim)
matchQuickCommand_NoTrim(input) == FirstMatch(QUICK_COMMAND_DEFINITIONS, input)

\* matchQuickCommand(input)
matchQuickCommand(input) == FirstMatch(QUICK_COMMAND_DEFINITIONS, Trim(input))

\* what the patterns of a definition's extractFromAbstract match in an abstract: an
\* abstract is read word by word, and a match is one word of it
MathPatterns == <<{"$x$"}, {"equation", "formula", "theorem", "lemma"}>>
CodePatterns == <<{"https://github.com/a/b"}, {"github.com/a/b"}>>
CodeMentions == {"code", "implementation", "repository", "open-source"}

\* findings: for each pattern in turn, the matches of abstract.match(pattern)
RECURSIVE Findings(_, _)
Findings(abstract, patterns) ==
    IF patterns = <<>> THEN <<>>
    ELSE SelectSeq(abstract, LAMBDA w : w \in Head(patterns))
         \o Findings(abstract, Tail(patterns))

\* findings.slice(0, 5)
FirstFive(findings) == SubSeq(findings, 1, IF Len(findings) < 5 THEN Len(findings) ELSE 5)

\* extractFromAbstract of each definition (the fixed parts of a reply are one token)
extractFromAbstract(command, abstract) ==
    IF command = CMD_FORMULA
    THEN LET findings == Findings(abstract, MathPatterns)
         IN  IF Len(findings) > 0
             THEN <<"MATH_FOUND">> \o FirstFive(findings) \o <<"MATH_SEE_PAPER">>
             ELSE <<"MATH_NOT_FOUND">>
    ELSE LET findings == Findings(abstract, CodePatterns)
             hasCodeMention == \E i \in 1 .. Len(abstract) : abstract[i] \in CodeMentions
         IN  IF Len(findings) > 0 THEN <<"LINKS_FOUND">> \o FirstFive(findings)
             ELSE IF hasCodeMention THEN <<"CODE_MENTIONED_NO_LINK">>
             ELSE <<"LINKS_NOT_FOUND">>

\* getQuickCommandDefinition(command): the index of the definition, 0 for undefined
getQuickCommandDefinition(command) ==
    IF \E i \in 1 .. Len(QUICK_COMMAND_DEFINITIONS) : QUICK_COMMAND_DEFINITIONS[i] = command
    THEN CHOOSE i \in 1 .. Len(QUICK_COMMAND_DEFINITIONS) :
             /\ QUICK_COMMAND_DEFINITIONS[i] = command
             /\ \A j \in 1 .. (i - 1) : QUICK_COMMAND_DEFINITIONS[j] # command
    ELSE 0

\* executeQuickCommand(command, context)
executeQuickCommand(command, ctx) ==
    LET definition == getQuickCommandDefinition(command)
    IN  IF definition = 0
        THEN <<"UNKNOWN_COMMAND">> \o command
        ELSE extractFromAbstract(QUICK_COMMAND_DEFINITIONS[definition], ctx.abstract)

\* the white-space runs of at most n characters
Pads(n) == UNION {[1..k -> WhiteSpace] : k \in 0..n}

\* characters that belong to no white space
ExtraChars == {"!", "kan"}

\* the texts between the padding: the commands, a command with one more character
\* after or before it, a command with white space inside it, a proper prefix of a
\* command (the empty text included)
QcCores ==
    LET cmds == {QUICK_COMMAND_DEFINITIONS[i] : i \in 1..Len(QUICK_COMMAND_DEFINITIONS)}
    IN  cmds
        \cup {c \o <<x>> : c \in cmds, x \in ExtraChars}
        \cup {<<x>> \o c : c \in cmds, x \in ExtraChars}
        \cup UNION {{SubSeq(c, 1, k) \o <<w>> \o SubSeq(c, k + 1, Len(c)) :
                        k \in 1..(Len(c) - 1), w \in WhiteSpace} : c \in cmds}
        \cup UNION {{SubSeq(c, 1, k) : k \in 0..(Len(c) - 1)} : c \in cmds}

\* the arguments matchQuickCommand is called with
QcInputs == {l \o core \o r : l \in Pads(MaxPad), core \in QcCores, r \in Pads(MaxPad)}

\* isQuickCommand(input) of types.ts: QUICK_COMMANDS.includes(input)
isQuickCommand(input) == input \in QUICK_COMMANDS

\* isRecognizedCommand(command)
isRecognizedCommand(command) == matchQuickCommand(command) # NullCmd

\* no call made yet
QcNotCalled == [called |-> FALSE, value |-> NullCmd, isQuick |-> FALSE, recognized |-> FALSE]

\* matchQuickCommand(qcInput), isQuickCommand(qcInput) and isRecognizedCommand(qcInput)
\* are called and return
QcMatch ==
    /\ ~qcResult.called
    /\ qcResult' = [called |-> TRUE, value |-> matchQuickCommand(qcInput),
                    isQuick |-> isQuickCommand(qcInput),
                    recognized |-> isRecognizedCommand(qcInput)]
    /\ UNCHANGED qcInput

\* an argument is chosen
QcInit ==
    /\ qcInput \in QcInputs
    /\ qcResult = QcNotCalled

\* the pure functions are not called
QcIdle ==
    /\ qcInput = <<>>
    /\ qcResult = QcNotCalled

\* a call of a pure function leaves the objects alone
QcFrame == UNCHANGED <<smVars, nqVars, hVars, chatVars, homeVars, appVars>>

QcNext ==
    \/ QcMatch /\ QcFrame

(***************************************************************************)
(* app/page.tsx (Home) and Chat/ChatInterface.tsx                          *)
(*                                                                         *)
(* Home gives useChatInterface its three collaborators and renders the     *)
(* ChatInterface component while the chat is open (isChatOpen, which Home  *)
(* sets together with the hook's isOpen in handleOpenChat and              *)
(* handleChatClose).  An action is a handler, the render it causes and     *)
(* the effects of that render.  Home never calls updateProcessingStatus.   *)
(***************************************************************************)
\* processingStatus === null
NullStatus == [null |-> TRUE]

\* '后端服务未连接，请稍后重试。'
NOT_CONNECTED == <<"BACKEND_NOT_CONNECTED_RETRY_LATER">>
\* `请求失败：${...}。请稍后重试。`
CHAT_FAILED == <<"REQUEST_FAILED_RETRY_LATER">>
\* '\n\n⚠️ 注意：PDF内容暂时不可用，回答基于论文摘要。'
PDF_DISCLAIMER == <<"\n", "\n", "NOTE_PDF_UNAVAILABLE_ANSWER_BASED_ON_ABSTRACT">>

\* what the backend does with the requests of one exchange: it answers, it fails the
\* chatWithPDF request only, or it fails every request
BackendOutcomes == {"ok", "pdfChatFailed", "failed"}

\* Home's onLLMRequest(message, context): the reply and the path that produced it
onLLMRequest(connected, ctx, outcome) ==
    IF ~connected
    THEN [content |-> NOT_CONNECTED, path |-> "notConnected"]
    ELSE IF ctx.isPdfProcessed /\ ctx.pdfUrl # NoUrl
    THEN CASE outcome = "ok" -> [content |-> LLM_ANSWER, path |-> "fullText"]
           [] outcome = "pdfChatFailed" ->
                [content |-> LLM_ANSWER \o PDF_DISCLAIMER, path |-> "abstractFallback"]
           [] OTHER -> [content |-> CHAT_FAILED, path |-> "failed"]
    ELSE IF outcome = "failed"
    THEN [content |-> CHAT_FAILED, path |-> "failed"]
    ELSE [content |-> LLM_ANSWER, path |-> "abstractOnly"]

\* Home's onQuickCommandRequest(command, context)
onQuickCommandRequest(connected, outcome) ==
    IF ~connected
    THEN [content |-> NOT_CONNECTED, path |-> "notConnected"]
    ELSE IF outcome = "failed"
    THEN [content |-> QUICK_FAILED, path |-> "failed"]
    ELSE [content |-> QUICK_ANSWER, path |-> "backend"]

\* Home passes onStartPDFProcessing to the hook
OnStartPDFProcessingSupplied == TRUE

\* mutant of StartsPDFProcessing: the pdfUrl is not tested
StartsPDFProcessing_AnyOpen(pdfUrl, supplied) == supplied

\* open / startPDFProcessing: `pdfUrl && onStartPDFProcessing`
StartsPDFProcessing(pdfUrl, supplied) == pdfUrl # NoUrl /\ supplied

\* a call onStartPDFProcessing(paperId, pdfUrl) that has not settled
Kick(paperId, pdfUrl) == [paperId |-> paperId, pdfUrl |-> pdfUrl, state |-> "pending"]

\* Home's onStartPDFProcessing: not connected, it throws before any request; else it
\* resolves, after processPDF answered success, or after it answered success = false
\* or threw, which are logged
KickOutcomes(connected) ==
    IF connected THEN {"success", "failed"} ELSE {"rejected"}

\* the status snapshots getPDFStatus answers with
PolledSnapshots ==
    { [isDownloading |-> FALSE, isProcessing |-> TRUE, isComplete |-> FALSE, progress |-> 50,
       errorMessage |-> NoError, totalChunks |-> 2, processedChunks |-> 1],
      [isDownloading |-> FALSE, isProcessing |-> FALSE, isComplete |-> TRUE, progress |-> 100,
       errorMessage |-> NoError, totalChunks |-> 2, processedChunks |-> 2],
      [isDownloading |-> FALSE, isProcessing |-> TRUE, isComplete |-> TRUE, progress |-> 100,
       errorMessage |-> NoError, totalChunks |-> 2, processedChunks |-> 2],
      [isDownloading |-> FALSE, isProcessing |-> FALSE, isComplete |-> FALSE, progress |-> 0,
       errorMessage |-> "download failed", totalChunks |-> 0, processedChunks |-> 0] }

\* `status.isComplete || status.errorMessage`
IsFinished(status) == status.isComplete \/ status.errorMessage # NoError

\* shouldPoll of the polling effect
shouldPoll(ctx, status) ==
    /\ ctx.pdfUrl # NoUrl
    /\ \/ status = NullStatus
       \/ status.isDownloading
       \/ status.isProcessing
       \/ (~status.isComplete /\ status.errorMessage = NoError)

\* `if (statusPollingRef.current) { clearInterval(...); statusPollingRef.current = null }`:
\* the pair <<statusPollingRef.current, setInterval entries>> after it
ClearedInterval(ref, tab) ==
    IF ref # NoTimer THEN <<NoTimer, ClearTimeout(tab, ref)>> ELSE <<ref, tab>>

\* the polling effect, run after a render that changed context, isOpen or
\* processingStatus: the cleanup of its previous run, then its body
PollingEffect(ref, tab, ctx, open, status) ==
    LET c == ClearedInterval(ref, tab)
    IN  IF ctx = NullCtx \/ ~open
        THEN c
        ELSE IF shouldPoll(ctx, status)
        THEN LET h == NewHandle(c[2], c[1])
             IN  <<h, c[2] \cup {[id |-> h, paperId |-> ctx.paperId]}>>
        ELSE c

HomeOp(name) == [op |-> name, outcome |-> "none", path |-> "none"]

\* ChatInterface after the step: mounted (the chat is open) it holds status and its
\* polling effect has run over the new context; unmounted it holds nothing
ChatInterfaceRender(status) ==
    IF isOpen'
    THEN LET e == PollingEffect(statusPollingRef, pollIntervals, context', isOpen', status)
         IN  /\ processingStatus' = status
             /\ statusPollingRef' = e[1]
             /\ pollIntervals' = e[2]
    ELSE /\ processingStatus' = NullStatus
         /\ statusPollingRef' = NoTimer
         /\ pollIntervals' = {}

\* handleOpenChat(paperId): chatInterface.open(...), which calls onStartPDFProcessing
\* without awaiting it; ChatInterface mounts, or sees a new context.processingStatus
HomeOpen ==
    /\ ChatOpen
    /\ pdfKicks' = IF StartsPDFProcessing(chatInput'.pdfUrl, OnStartPDFProcessingSupplied)
                   THEN Append(pdfKicks, Kick(chatInput'.paperId, chatInput'.pdfUrl))
                   ELSE pdfKicks
    /\ ctxGen' = chatGen'
    /\ ChatInterfaceRender(context'.processingStatus)
    /\ homeLast' = HomeOp("open")
    /\ UNCHANGED <<isConnected, statusReqs, pollCount>>

\* handleChatClose(): chatInterface.close(); ChatInterface unmounts, and what its
\* pending getPDFStatus calls do later touches no mounted component
HomeClose ==
    /\ isOpen
    /\ ChatClose
    /\ ctxGen' = 0
    /\ ChatInterfaceRender(NullStatus)
    /\ statusReqs' = {}
    /\ homeLast' = HomeOp("close")
    /\ UNCHANGED <<isConnected, pdfKicks, pollCount>>

\* the chat area of Home has room for the messages of one more exchange
RoomInHome == chatMsgCount + Cardinality(chatReqs) + 2 <= MaxHomeMsgs

\* ChatInterface's onSendMessage: chatInterface.sendMessage(content)
HomeSendMessage ==
    /\ isOpen
    /\ RoomInHome
    /\ ChatSendMessage
    /\ ChatInterfaceRender(processingStatus)
    /\ homeLast' = HomeOp("send")
    /\ UNCHANGED <<isConnected, pdfKicks, ctxGen, statusReqs, pollCount>>

\* ChatInterface's onQuickCommand: chatInterface.handleQuickCommand(command)
HomeQuickCommand ==
    /\ isOpen
    /\ RoomInHome
    /\ ChatHandleQuickCommand
    /\ ChatInterfaceRender(processingStatus)
    /\ homeLast' = HomeOp("quick")
    /\ UNCHANGED <<isConnected, pdfKicks, ctxGen, statusReqs, pollCount>>

\* Home's collaborator returns and the suspended call runs to its end; a context made
\* by another open() brings another processingStatus object, which ChatInterface
\* copies into its state
HomeSettle ==
    \E req \in chatReqs : \E outcome \in BackendOutcomes : \E now \in DateNow(chatClock) :
        LET reply == IF req.kind = "send"
                     THEN onLLMRequest(isConnected, req.ctx, outcome)
                     ELSE onQuickCommandRequest(isConnected, outcome)
        IN  /\ SettleExchange(req, reply.content, "ok", now)
            /\ ctxGen' = req.gen
            /\ ChatInterfaceRender(IF req.gen # ctxGen THEN req.ctx.processingStatus
                                   ELSE processingStatus)
            /\ homeLast' = [HomeOp("reply") EXCEPT !.path = reply.path]
            /\ UNCHANGED <<isConnected, pdfKicks, statusReqs, pollCount>>

\* chatInterface.startPDFProcessing()
HomeStartPDFProcessing ==
    /\ Len(pdfKicks) < MaxKicks
    /\ ChatStartPDFProcessing
    /\ pdfKicks' = IF /\ context # NullCtx
                      /\ StartsPDFProcessing(context.pdfUrl, OnStartPDFProcessingSupplied)
                   THEN Append(pdfKicks, Kick(context.paperId, context.pdfUrl))
                   ELSE pdfKicks
    /\ homeLast' = HomeOp("startPDFProcessing")
    /\ UNCHANGED <<isConnected, ctxGen, processingStatus, statusPollingRef, pollIntervals,
                   statusReqs, pollCount>>

\* an onStartPDFProcessing call settles; open's .catch and startPDFProcessing's catch
\* log a rejection
KickoffSettle ==
    \E k \in 1 .. Len(pdfKicks) : \E outcome \in KickOutcomes(isConnected) :
        /\ pdfKicks[k].state = "pending"
        /\ pdfKicks' = [pdfKicks EXCEPT ![k].state = outcome]
        /\ homeLast' = [HomeOp("kickoff") EXCEPT !.outcome = outcome]
        /\ UNCHANGED <<chatVars, isConnected, ctxGen, processingStatus, statusPollingRef,
                       pollIntervals, statusReqs, pollCount>>

\* the setInterval callback runs: apiClient.getPDFStatus(context.paperId) is called,
\* for the paper of the context the effect closed over
PollTick ==
    \E iv \in pollIntervals :
        /\ pollCount < MaxPolls
        /\ pollCount' = pollCount + 1
        /\ statusReqs' = statusReqs \cup {[n |-> pollCount + 1, paperId |-> iv.paperId]}
        /\ homeLast' = HomeOp("tick")
        /\ UNCHANGED <<chatVars, isConnected, pdfKicks, ctxGen, processingStatus,
                       statusPollingRef, pollIntervals>>

\* getPDFStatus answers: setProcessingStatus(status), the interval is cleared for a
\* finished status, and the render that follows runs the polling effect again
PollResponse ==
    \E r \in statusReqs : \E status \in PolledSnapshots :
        LET c == IF IsFinished(status)
                 THEN ClearedInterval(statusPollingRef, pollIntervals)
                 ELSE <<statusPollingRef, pollIntervals>>
            e == PollingEffect(c[1], c[2], context, isOpen, status)
        IN  /\ statusReqs' = statusReqs \ {r}
            /\ processingStatus' = status
            /\ statusPollingRef' = e[1]
            /\ pollIntervals' = e[2]
            /\ homeLast' = HomeOp("pollResponse")
            /\ UNCHANGED <<chatVars, isConnected, pdfKicks, ctxGen, pollCount>>

\* getPDFStatus rejects: the catch block logs it
PollError ==
    \E r \in statusReqs :
        /\ statusReqs' = statusReqs \ {r}
        /\ homeLast' = HomeOp("pollError")
        /\ UNCHANGED <<chatVars, isConnected, pdfKicks, ctxGen, processingStatus,
                       statusPollingRef, pollIntervals, pollCount>>

\* Home before the chat was ever opened
HomeUnopened ==
    /\ pdfKicks = <<>>
    /\ ctxGen = 0
    /\ processingStatus = NullStatus
    /\ statusPollingRef = NoTimer
    /\ pollIntervals = {}
    /\ statusReqs = {}
    /\ pollCount = 0
    /\ homeLast = HomeOp("none")

\* the first render of Home, the backend reachable or not
HomeInit == isConnected \in BOOLEAN /\ HomeUnopened

\* Home is not rendered
HomeIdle == isConnected = TRUE /\ HomeUnopened

\* a step of Home leaves the other subsystems alone
HomeFrame == UNCHANGED <<smVars, nqVars, hVars, qcVars, appVars>>

HomeNext ==
    \/ HomeOpen /\ HomeFrame
    \/ HomeClose /\ HomeFrame
    \/ HomeSendMessage /\ HomeFrame
    \/ HomeQuickCommand /\ HomeFrame
    \/ HomeSettle /\ HomeFrame
    \/ HomeStartPDFProcessing /\ HomeFrame
    \/ KickoffSettle /\ HomeFrame

\* the steps of Home that ChatInterface's status polling takes part in
PollNext ==
    \/ HomeOpen /\ HomeFrame
    \/ HomeClose /\ HomeFrame
    \/ HomeSendMessage /\ HomeFrame
    \/ HomeSettle /\ HomeFrame
    \/ PollTick /\ HomeFrame
    \/ PollResponse /\ HomeFrame
    \/ PollError /\ HomeFrame

(***************************************************************************)
(* StateMachine.ts with callbacks that call the machine                    *)
(*                                                                         *)
(* A state-change callback runs inside transition(); here it may call      *)
(* transition() or dispose() of the machine that invoked it.               *)
(* _notifyStateChange iterates with for...of over the array _callbacks     *)
(* holds when the loop starts: dispose() assigns a new array to the field  *)
(* and leaves the iterated one as it is.                                   *)
(***************************************************************************)
\* the machine's fields and the event loop's timeouts, with the events so far
Machine(state, cbs, timer, tab, log) ==
    [state |-> state, cbs |-> cbs, timer |-> timer, tab |-> tab, log |-> log]

\* the transitions callbacks have made so far during the transition that logged log
NestedTransitions(log) == Len(SelectSeq(log, LAMBDA e : e.kind = "taken")) - 1

\* what a callback does when it is invoked on machine mc: nothing, dispose(), or
\* transition(t).  A transition(t) the table has no entry for returns false before it
\* does anything, which is the callback doing nothing.
ReentrantActs(mc) ==
    {[call |-> "none"], [call |-> "dispose"]}
        \cup (IF NestedTransitions(mc.log) < MaxNested
              THEN {[call |-> "transition", trigger |-> t] :
                       t \in {u \in TransitionTrigger :
                                 VALID_TRANSITIONS(mc.state, u) # Undefined}}
              ELSE {})

\* dispose() on a machine
Disposed(mc) ==
    LET c == ClearedIdleTimer(mc.timer, mc.tab)
    IN  [mc EXCEPT !.timer = c[1], !.tab = c[2], !.cbs = <<>>,
                   !.log = Append(@, [kind |-> "dispose"])]

RECURSIVE ReTransition(_, _, _)
RECURSIVE ReNotify(_, _, _, _, _)

\* transition(trigger) on machine mc: the machines it can return with
ReTransition(mc, t, ms) ==
    LET target == VALID_TRANSITIONS(mc.state, t)
    IN  IF target = Undefined
        THEN {mc}
        ELSE LET tm == TimerAfterTransition(target, mc.timer, mc.tab, ms)
                 moved == [mc EXCEPT !.state = target, !.timer = tm[1], !.tab = tm[2],
                                     !.log = Append(@, [kind |-> "taken", from |-> mc.state,
                                                        to |-> target])]
             IN  ReNotify(moved, moved.cbs, 1, mc.state, ms)

\* _notifyStateChange(previousState) from index i of the array arr it iterates:
\* callback(this._currentState, previousState), then whatever the callback does
ReNotify(mc, arr, i, previousState, ms) ==
    IF i > Len(arr)
    THEN {mc}
    ELSE LET called == [mc EXCEPT !.log = Append(@, [kind |-> "call", cb |-> arr[i],
                                                       idx |-> i, state |-> mc.state,
                                                       prev |-> previousState])]
             after(act) ==
                 CASE act.call = "none" -> {called}
                   [] act.call = "dispose" -> {Disposed(called)}
                   [] OTHER -> ReTransition(called, act.trigger, ms)
         IN  UNION { UNION { ReNotify(next, arr, i + 1, previousState, ms) :
                                next \in after(act) } : act \in ReentrantActs(mc) }

\* the callback invocations of an event log, as _notifyStateChange made them
CallsOf(log) ==
    LET calls == SelectSeq(log, LAMBDA e : e.kind = "call")
    IN  [k \in 1 .. Len(calls) |->
            [cb |-> calls[k].cb, state |-> calls[k].state, prev |-> calls[k].prev]]

\* transition(trigger) run with the event loop's timeout table tab, its callbacks free
\* to call the machine
ReTransitionBody(t, tab, name) ==
    \E mc \in ReTransition(Machine(currentState, callbacks, idleTimer, tab, <<>>), t,
                           defaultIdleTimeout) :
        /\ currentState' = mc.state
        /\ callbacks' = mc.cbs
        /\ idleTimer' = mc.timer
        /\ smTimeouts' = mc.tab
        /\ smEvents' = mc.log
        /\ notified' = CallsOf(mc.log)
        /\ smLast' = [op |-> name, trigger |-> t, from |-> currentState,
                      ok |-> (VALID_TRANSITIONS(currentState, t) # Undefined)]
        /\ UNCHANGED <<defaultIdleTimeout, unsubHandles, handlesIssued, handlesCalled>>

\* a client calls transition(trigger)
ReTransitionCall ==
    \E t \in TransitionTrigger : ReTransitionBody(t, smTimeouts, "transition")

\* the idle timer's setTimeout callback runs
ReFireIdleTimer ==
    \E e \in smTimeouts :
        /\ e.left <= 0
        /\ ReTransitionBody("timeout", smTimeouts \ {e}, "fire")

\* onStateChange(callback); the closure it returns is not kept
ReOnStateChange ==
    \E cb \in CallbackIds :
        /\ Len(callbacks) < MaxCallbacks
        /\ callbacks' = Append(callbacks, cb)
        /\ notified' = <<>>
        /\ smLast' = OtherOp("onStateChange")
        /\ UNCHANGED <<currentState, idleTimer, defaultIdleTimeout, smTimeouts, unsubHandles,
                       handlesIssued, handlesCalled>>

\* a step of the machine made outside a callback
ReDirect(step) == step /\ smEvents' = <<>>

\* a step of the app: the new notifications Home's effect found, the bubble it made
\* for them and the message displayed when it ran
AppOp(name) == [op |-> name, fresh |-> {}, bubble |-> NullMsg, shown |-> NullMsg]

\* the state of the app before Home and the avatar are rendered
AppUnrendered ==
    /\ smEvents = <<>>
    /\ avatarState = "idle"
    /\ smMounted = FALSE
    /\ notifications = {}
    /\ processedNotificationIds = {}
    /\ appLast = AppOp("none")

AppInit == AppUnrendered
AppIdle == AppUnrendered

\* a step of the machine leaves the other subsystems and the app alone
ReFrame ==
    UNCHANGED <<nqVars, hVars, chatVars, qcVars, homeVars, avatarState, smMounted,
                notifications, processedNotificationIds, appLast>>

ReNext ==
    \/ ReTransitionCall /\ ReFrame
    \/ ReFireIdleTimer /\ ReFrame
    \/ ReDirect(ReOnStateChange) /\ ReFrame
    \/ ReDirect(Dispose) /\ ReFrame
    \/ ReDirect(SmTick) /\ ReFrame

(***************************************************************************)
(* app/page.tsx (Home) with the Avatar's useStateMachine, the app store    *)
(* and useBubbleNotifier                                                   *)
(*                                                                         *)
(* Every step is a handler or an effect together with the render React     *)
(* makes for the state it set and the effects of that render.              *)
(***************************************************************************)
\* the ids of the notifications the backend reports
NotificationIds == 1 .. MaxNotifications

\* the callback useStateMachine subscribes: (newState) => setAvatarState(newState)
StoreSync == "f"

\* what a render commits to the notifier: the updates qUpd of the queue state and cUpd
\* of currentMessage applied to the committed state st
HRendered(st, qUpd, cUpd) ==
    LET r == ProcessQueueUpdates(st.queue, qUpd, <<>>)
        sets == cUpd \o r.sets
    IN  [current |-> IF sets = <<>> THEN st.current ELSE sets[Len(sets)],
         queue |-> r.queue]

\* the notifier after the render that commits st, the handlers before it having left
\* the timer <<ref, tab>>: the auto-dismiss effect runs if currentMessage changed
HCommitRender(st, ref, tab, name, arg) ==
    LET tm == IF st.current # hCurrent
              THEN AutoDismissEffect(ref, tab, st.current, hAutoDismiss)
              ELSE <<ref, tab>>
    IN  /\ hCurrent' = st.current
        /\ hQueue' = st.queue
        /\ hQUpd' = <<>>
        /\ hCUpd' = <<>>
        /\ hTimerRef' = tm[1]
        /\ hTimeouts' = tm[2]
        /\ hShown' = IF st.current # NullMsg THEN hShown \cup {st.current.id} ELSE hShown
        /\ hLast' = HOp(name, arg)
        /\ UNCHANGED hAutoDismiss

\* the fields of the Avatar's machine after a step
MachineStep(state, cbs, timer, tab, calls, last) ==
    /\ currentState' = state
    /\ callbacks' = cbs
    /\ idleTimer' = timer
    /\ smTimeouts' = tab
    /\ notified' = calls
    /\ smLast' = last
    /\ smEvents' = <<>>
    /\ UNCHANGED <<defaultIdleTimeout, unsubHandles, handlesIssued, handlesCalled>>

AppKeepsMachine == UNCHANGED <<smVars, smEvents, smMounted>>
AppKeepsNotifier == UNCHANGED hVars
AppKeepsNotifications == UNCHANGED <<notifications, processedNotificationIds>>
AppFrame == UNCHANGED <<nqVars, chatVars, qcVars, homeVars>>

\* useStateMachine's mount effect: new StateMachine(avatarState), onStateChange; the
\* sync effect that runs after it finds the machine in the store's state
MountAvatar ==
    /\ ~smMounted
    /\ MachineStep(avatarState, <<StoreSync>>, NoTimer, smTimeouts, <<>>, OtherOp("mount"))
    /\ smMounted' = TRUE
    /\ appLast' = AppOp("mount")
    /\ UNCHANGED avatarState
    /\ AppKeepsNotifier /\ AppKeepsNotifications

\* the mount effect's cleanup: unsubscribe(); sm.dispose(); stateMachineRef.current = null
UnmountAvatar ==
    LET c == ClearedIdleTimer(idleTimer, smTimeouts)
    IN  /\ smMounted
        /\ MachineStep(currentState, <<>>, c[1], c[2], <<>>, OtherOp("unmount"))
        /\ smMounted' = FALSE
        /\ appLast' = AppOp("unmount")
        /\ UNCHANGED avatarState
        /\ AppKeepsNotifier /\ AppKeepsNotifications

\* the Avatar's handleAvatarClick: handleClick(), which is transition('click') with
\* the subscribed callback writing the new state to the store, then resetIdleTimer()
AvatarClick ==
    LET target == VALID_TRANSITIONS(currentState, "click")
        moved == target # Undefined
        state == IF moved THEN target ELSE currentState
        tm == IF moved
              THEN TimerAfterTransition(target, idleTimer, smTimeouts, defaultIdleTimeout)
              ELSE <<idleTimer, smTimeouts>>
        reset == IF state = "active"
                 THEN StartedIdleTimer(tm[1], tm[2], defaultIdleTimeout)
                 ELSE tm
    IN  /\ smMounted
        /\ MachineStep(state, callbacks, reset[1], reset[2],
                       IF moved
                       THEN <<[cb |-> StoreSync, state |-> target, prev |-> currentState]>>
                       ELSE <<>>,
                       [op |-> "transition", trigger |-> "click", from |-> currentState,
                        ok |-> moved])
        /\ avatarState' = IF moved THEN target ELSE avatarState
        /\ appLast' = AppOp("click")
        /\ UNCHANGED smMounted
        /\ AppKeepsNotifier /\ AppKeepsNotifications

\* the machine's idle timer fires: transition('timeout'), the subscribed callback
\* writing the new state to the store
AvatarIdleTimeout ==
    \E e \in smTimeouts :
        LET tab == smTimeouts \ {e}
            target == VALID_TRANSITIONS(currentState, "timeout")
            moved == target # Undefined
            tm == IF moved
                  THEN TimerAfterTransition(target, idleTimer, tab, defaultIdleTimeout)
                  ELSE <<idleTimer, tab>>
            called == moved /\ callbacks # <<>>
        IN  /\ e.left <= 0
            /\ MachineStep(IF moved THEN target ELSE currentState, callbacks, tm[1], tm[2],
                           IF called
                           THEN <<[cb |-> StoreSync, state |-> target, prev |-> currentState]>>
                           ELSE <<>>,
                           [op |-> "fire", trigger |-> "timeout", from |-> currentState,
                            ok |-> moved])
            /\ avatarState' = IF called THEN target ELSE avatarState
            /\ appLast' = AppOp("idleTimeout")
            /\ UNCHANGED smMounted
            /\ AppKeepsNotifier /\ AppKeepsNotifications

\* Home's notifications effect for the notifications a poll brought: the new ones are
\* marked processed, then clearAll(); enqueue(bubble for the best paper);
\* setAvatarState('alert').  The render that follows commits the notifier's updates
\* (enqueue was the callback of the render the effect belongs to) and runs
\* useStateMachine's sync effect, which force-sets a machine in another state.
HomeNotifications ==
    \E polled \in SUBSET NotificationIds :
        LET newNotifications == polled \ processedNotificationIds
        IN  /\ NothingPending
            /\ notifications' = polled
            /\ IF newNotifications = {}
               THEN /\ appLast' = AppOp("notifications")
                    /\ UNCHANGED <<processedNotificationIds, avatarState>>
                    /\ AppKeepsMachine /\ AppKeepsNotifier
               ELSE \E ms \in NewMessages(hCreated, 1) :
                       LET c == ClearedTimer(hTimerRef, hTimeouts)
                           st == HRendered([current |-> hCurrent, queue |-> hQueue],
                                           <<SetValue(<<>>), EnqueueUpdate(ms[1], hCurrent)>>,
                                           <<NullMsg>>)
                       IN  /\ hCreated + 1 <= MaxMessages
                           /\ processedNotificationIds' =
                                  processedNotificationIds \cup newNotifications
                           /\ HCommitRender(st, c[1], c[2], "notifications", ms[1].id)
                           /\ hCreated' = hCreated + 1
                           /\ hLive' = {ms[1].id}
                           /\ avatarState' = "alert"
                           /\ MachineStep(IF smMounted /\ currentState # "alert"
                                          THEN "alert" ELSE currentState,
                                          callbacks, idleTimer, smTimeouts, <<>>,
                                          IF smMounted /\ currentState # "alert"
                                          THEN [op |-> "forceState", trigger |-> "none",
                                                from |-> "none", ok |-> FALSE,
                                                state |-> "alert"]
                                          ELSE smLast)
                           /\ UNCHANGED smMounted
                           /\ appLast' = [op |-> "notifications", fresh |-> newNotifications,
                                          bubble |-> ms[1], shown |-> hCurrent]

\* the displayed bubble is dismissed (onDismiss={clearAll}) or clicked (Home's
\* handleBubbleClick calls clearAll()); the render that follows
BubbleClearAll ==
    LET c == ClearedTimer(hTimerRef, hTimeouts)
        st == HRendered([current |-> hCurrent, queue |-> hQueue],
                        <<SetValue(<<>>)>>, <<NullMsg>>)
    IN  /\ hCurrent # NullMsg
        /\ HCommitRender(st, c[1], c[2], "clearAll", 0)
        /\ hLive' = {}
        /\ appLast' = AppOp("clearAll")
        /\ UNCHANGED <<hCreated, avatarState>>
        /\ AppKeepsMachine /\ AppKeepsNotifications

\* the notifier's auto-dismiss timer fires: dismiss(); the render that follows
BubbleAutoDismiss ==
    \E e \in hTimeouts :
        LET c == ClearedTimer(hTimerRef, hTimeouts \ {e})
            st == HRendered([current |-> hCurrent, queue |-> hQueue],
                            <<ShowNextUpdate>>, <<>>)
        IN  /\ e.left <= 0
            /\ HCommitRender(st, c[1], c[2], "fire", 0)
            /\ appLast' = AppOp("autoDismiss")
            /\ UNCHANGED <<hCreated, hLive, avatarState>>
            /\ AppKeepsMachine /\ AppKeepsNotifications

\* TickMs milliseconds pass with no timeout due
AppTick ==
    /\ smTimeouts \cup hTimeouts # {}
    /\ \A e \in smTimeouts \cup hTimeouts : e.left > 0
    /\ smTimeouts' = {[id |-> e.id, left |-> e.left - TickMs] : e \in smTimeouts}
    /\ hTimeouts' = {[id |-> e.id, left |-> e.left - TickMs] : e \in hTimeouts}
    /\ appLast' = AppOp("tick")
    /\ UNCHANGED <<currentState, callbacks, idleTimer, defaultIdleTimeout, unsubHandles,
                   handlesIssued, handlesCalled, notified, smLast, smEvents, smMounted,
                   hCurrent, hQueue, hQUpd, hCUpd, hTimerRef, hAutoDismiss, hCreated,
                   hLive, hShown, hLast, avatarState>>
    /\ AppKeepsNotifications

AppNext ==
    \/ MountAvatar /\ AppFrame
    \/ UnmountAvatar /\ AppFrame
    \/ AvatarClick /\ AppFrame
    \/ AvatarIdleTimeout /\ AppFrame
    \/ HomeNotifications /\ AppFrame
    \/ BubbleClearAll /\ AppFrame
    \/ BubbleAutoDismiss /\ AppFrame
    \/ AppTick /\ AppFrame

(***************************************************************************)
(* useBubbleNotifier.ts: the hook and the class given the same calls       *)
(*                                                                         *)
(* Every call is made on the NotificationQueue instance and on the hook's  *)
(* callbacks of the latest render, and React renders the hook before the   *)
(* next call.  The hook's auto-dismiss timer calls its dismiss(); the      *)
(* class, which has no timer, is given that dismiss() too.                 *)
(***************************************************************************)
\* the hook's committed state
HookState == [current |-> hCurrent, queue |-> hQueue]

\* the messages the step of the class has just taken
JustArrived == SubSeq(nqArrived', Len(nqArrived) + 1, Len(nqArrived'))

\* enqueue(message) on both
BothEnqueue ==
    /\ NqEnqueue
    /\ HCommitRender(HRendered(HookState, <<EnqueueUpdate(JustArrived[1], hCurrent)>>, <<>>),
                     hTimerRef, hTimeouts, "enqueue", JustArrived[1].id)
    /\ hCreated' = Len(nqArrived')
    /\ hLive' = hLive \cup {JustArrived[1].id}

\* enqueueAll(messages) on both; the hook returns at once for an empty array
BothEnqueueAll ==
    /\ NqEnqueueAll
    /\ HCommitRender(IF JustArrived = <<>>
                     THEN HookState
                     ELSE HRendered(HookState, <<EnqueueAllUpdate(JustArrived, hCurrent)>>,
                                    <<>>),
                     hTimerRef, hTimeouts, "enqueueAll", Len(JustArrived))
    /\ hCreated' = Len(nqArrived')
    /\ hLive' = hLive \cup {JustArrived[i].id : i \in 1..Len(JustArrived)}

\* dismiss() on both
BothDismiss ==
    LET c == ClearedTimer(hTimerRef, hTimeouts)
    IN  /\ NqDismiss
        /\ HCommitRender(HRendered(HookState, <<ShowNextUpdate>>, <<>>), c[1], c[2],
                         "dismiss", 0)
        /\ UNCHANGED <<hCreated, hLive>>

\* clear() on the class, clearAll() on the hook
BothClear ==
    LET c == ClearedTimer(hTimerRef, hTimeouts)
    IN  /\ NqClear
        /\ HCommitRender(HRendered(HookState, <<SetValue(<<>>)>>, <<NullMsg>>), c[1], c[2],
                         "clearAll", 0)
        /\ hLive' = {}
        /\ UNCHANGED hCreated

\* the hook's auto-dismiss timer fires and calls dismiss(); dismiss() on the class
BothAutoDismiss ==
    \E e \in hTimeouts :
        LET c == ClearedTimer(hTimerRef, hTimeouts \ {e})
        IN  /\ e.left <= 0
            /\ NqDismiss
            /\ HCommitRender(HRendered(HookState, <<ShowNextUpdate>>, <<>>), c[1], c[2],
                             "fire", 0)
            /\ UNCHANGED <<hCreated, hLive>>

\* TickMs milliseconds pass with no timeout due
BothTick == HTick /\ UNCHANGED nqVars

BothFrame == UNCHANGED <<smVars, chatVars, qcVars, homeVars, appVars>>

BothNext ==
    \/ BothEnqueue /\ BothFrame
    \/ BothEnqueueAll /\ BothFrame
    \/ BothDismiss /\ BothFrame
    \/ BothClear /\ BothFrame
    \/ BothAutoDismiss /\ BothFrame
    \/ BothTick /\ BothFrame

(***************************************************************************)
(* Specifications.                                                         *)
(***************************************************************************)
\* the options the other specifications fix
DefaultChatOpts == chatOpts = [llm |-> TRUE, quick |-> TRUE]

Init == SmInit /\ NqInit /\ HInit /\ ChatInit /\ QcInit /\ HomeInit /\ AppInit
Next ==
    \/ SmNext
    \/ NqNext
    \/ HNext
    \/ ChatNext
    \/ QcNext
    \/ HomeNext
    \/ PollNext
    \/ ReNext
    \/ AppNext
    \/ BothNext
Spec == Init /\ [][Next]_vars

\* the StateMachine alone (the other subsystems stay as constructed)
InitSM == SmInit /\ NqInit /\ HInit /\ hAutoDismiss = DEFAULT_AUTO_DISMISS_TIMEOUT
          /\ ChatInit /\ DefaultChatOpts /\ QcIdle /\ HomeIdle /\ AppIdle
SpecSM == InitSM /\ [][SmNext]_vars

\* the NotificationQueue class alone
InitNQ == SmInit /\ currentState = "idle" /\ NqInit /\ HInit
          /\ hAutoDismiss = DEFAULT_AUTO_DISMISS_TIMEOUT /\ ChatInit /\ DefaultChatOpts
          /\ QcIdle /\ HomeIdle /\ AppIdle
SpecNQ == InitNQ /\ [][NqNext]_vars

\* the useBubbleNotifier hook alone
InitHook == SmInit /\ currentState = "idle" /\ NqInit /\ HInit /\ ChatInit /\ DefaultChatOpts
            /\ QcIdle /\ HomeIdle /\ AppIdle
SpecHook == InitHook /\ [][HNext]_vars

\* the useChatInterface hook alone
InitChat == SmInit /\ currentState = "idle" /\ NqInit /\ HInit
            /\ hAutoDismiss = DEFAULT_AUTO_DISMISS_TIMEOUT /\ ChatInit /\ QcIdle /\ HomeIdle /\ AppIdle
SpecChat == InitChat /\ [][ChatNext]_vars

\* the pure functions of quickCommands.ts alone
InitQC == SmInit /\ currentState = "idle" /\ NqInit /\ HInit
          /\ hAutoDismiss = DEFAULT_AUTO_DISMISS_TIMEOUT /\ ChatInit /\ DefaultChatOpts
          /\ QcInit /\ HomeIdle /\ AppIdle
SpecQC == InitQC /\ [][QcNext]_vars

\* Home with the useChatInterface hook and the ChatInterface component
InitHome == SmInit /\ currentState = "idle" /\ NqInit /\ HInit
            /\ hAutoDismiss = DEFAULT_AUTO_DISMISS_TIMEOUT /\ ChatInit /\ DefaultChatOpts
            /\ QcIdle /\ HomeInit /\ AppIdle
SpecHome == InitHome /\ [][HomeNext]_vars

\* Home with the status polling of its ChatInterface
SpecPoll == InitHome /\ [][PollNext]_vars

\* the StateMachine with callbacks that call the machine
SpecRe == InitSM /\ [][ReNext]_vars

\* Home with the Avatar, the app store and the bubble notifier
InitApp == InitSM /\ currentState = "idle"
SpecApp == InitApp /\ [][AppNext]_vars

\* the hook and the class given the same calls
SpecBoth == InitApp /\ [][BothNext]_vars

(***************************************************************************)
(* Claims about the StateMachine (checked under SpecSM).                   *)
(***************************************************************************)
\* The Transition Table as the specification prints it (seven entries).
TableTarget(s, t) ==
    IF      <<s, t>> = <<"idle", "click">>     THEN "active"
    ELSE IF <<s, t>> = <<"idle", "newPaper">>  THEN "alert"
    ELSE IF <<s, t>> = <<"alert", "click">>    THEN "active"
    ELSE IF <<s, t>> = <<"alert", "timeout">>  THEN "idle"
    ELSE IF <<s, t>> = <<"alert", "dismiss">>  THEN "idle"
    ELSE IF <<s, t>> = <<"active", "timeout">> THEN "idle"
    ELSE IF <<s, t>> = <<"active", "dismiss">> THEN "idle"
    ELSE "none"

\* the last operation was a call of transition (by a client or by the idle timer)
WasTransition == smLast.op \in {"transition", "fire"}

\* C1: transition(t) in state s sets the state to the table target and returns true
\* when (s, t) is one of the seven table entries, and otherwise leaves the state equal
\* to s and returns false; canTransition(t) is true exactly in the first case.
C1_TransitionTable ==
    /\ WasTransition =>
          IF TableTarget(smLast.from, smLast.trigger) # "none"
          THEN smLast.ok /\ currentState = TableTarget(smLast.from, smLast.trigger)
          ELSE ~smLast.ok /\ currentState = smLast.from
    /\ \A t \in TransitionTrigger :
          /\ canTransition(t) <=> (TableTarget(currentState, t) # "none")
          /\ canTransition(t) => getTargetState(t) = TableTarget(currentState, t)

\* C1 witness: a table entry was taken (alert --dismiss--> idle) ...
C1_Witness ==
    /\ smLast = [op |-> "transition", trigger |-> "dismiss", from |-> "alert", ok |-> TRUE]
    /\ currentState = "idle"

\* C9: immediately after a successful transition the idle-reversion timer is running
\* iff the new state is active; entering active leaves one freshly armed timer (the
\* full default timeout ahead), leaving active leaves no timer armed.
C9_TimerIffActive ==
    (WasTransition /\ smLast.ok) =>
        /\ isIdleTimerRunning <=> (currentState = "active")
        /\ currentState = "active" =>
              smTimeouts = {[id |-> idleTimer, left |-> defaultIdleTimeout]}
        /\ currentState # "active" => smTimeouts = {}

\* C9 witness: active was left by dismiss and no timer is armed.
C9_Witness ==
    /\ smLast = [op |-> "transition", trigger |-> "dismiss", from |-> "active", ok |-> TRUE]
    /\ idleTimer = NoTimer
    /\ smTimeouts = {}

\* a step that is a call of transition with no table entry
InvalidTransitionStep == smLast'.op = "transition" /\ ~smLast'.ok

\* C10: an invalid transition returns false and changes nothing: the state, the
\* subscribers and the idle timer (handle and remaining time) are as before and no
\* callback is invoked.
C10_InvalidIsNoOp ==
    [][InvalidTransitionStep =>
          /\ UNCHANGED <<currentState, callbacks, idleTimer, smTimeouts,
                         defaultIdleTimeout, unsubHandles,
                   handlesIssued, handlesCalled>>
          /\ notified' = <<>>]_vars

\* C10 witness: an invalid click in active, with subscribers and an armed timer that
\* has already run for part of its time.
C10_Witness ==
    /\ smLast = [op |-> "transition", trigger |-> "click", from |-> "active", ok |-> FALSE]
    /\ callbacks # <<>>
    /\ idleTimer # NoTimer
    /\ \E e \in smTimeouts : e.id = idleTimer /\ e.left < defaultIdleTimeout

\* a step that is a successful call of transition (by a client or by the idle timer)
ValidTransitionStep == smLast'.op \in {"transition", "fire"} /\ smLast'.ok

\* C11: on every successful transition each callback registered at the moment of the
\* transition is invoked exactly once, before transition returns, with (newState,
\* previousState), in registration order; none is skipped, also when a callback
\* unsubscribes itself or another callback while the notification is in progress.
C11_EveryCallbackNotifiedInOrder ==
    [][ValidTransitionStep =>
          notified' = [i \in 1 .. Len(callbacks) |->
                          [cb |-> callbacks[i], state |-> currentState',
                           prev |-> currentState]]]_vars

\* C12: idle reversion is guaranteed: whenever the machine is in active (reached by
\* transition, given to the constructor or set by forceState) and nothing further is
\* applied, the idle timer eventually fires and the machine reaches idle.  Only a
\* pending timeout can take the machine out of active without a client's call, so
\* in every state with currentState = active a timeout must be pending.
C12_ActiveHasPendingTimeout ==
    currentState = "active" => smTimeouts # {}

\* the subscriptions other than those of callback cb, in order
OtherSubscriptions(cbs, cb) == SelectSeq(cbs, LAMBDA c : c # cb)

\* C30: the handle returned by onStateChange is an idempotent unsubscribe: its first
\* call removes one subscription of its callback and no other callback's, and a
\* further call of the same handle changes nothing, also when the callback function
\* is registered more than once.
C30_UnsubscribeIdempotent ==
    [][smLast'.op = "unsubscribe" =>
          /\ OtherSubscriptions(callbacks', smLast'.cb) = OtherSubscriptions(callbacks, smLast'.cb)
          /\ Len(callbacks') >= Len(callbacks) - 1
          /\ smLast'.again => callbacks' = callbacks]_vars

\* C32: forceState(s) sets currentState to s and changes nothing else: no callback is
\* invoked, no idle timer is started, an armed idle timer is neither cancelled nor
\* restarted, and the subscriber list is unchanged.
C32_ForceStateOnlySetsState ==
    [][smLast'.op = "forceState" =>
          /\ currentState' = smLast'.state
          /\ notified' = <<>>
          /\ idleTimer' = idleTimer
          /\ smTimeouts' = smTimeouts
          /\ callbacks' = callbacks
          /\ defaultIdleTimeout' = defaultIdleTimeout]_vars

\* forceState has just put a machine with subscribers and an armed, partly elapsed idle
\* timer into idle
C32_Witness ==
    /\ smLast.op = "forceState"
    /\ currentState = "idle"
    /\ callbacks # <<>>
    /\ \E e \in smTimeouts : e.id = idleTimer /\ 0 < e.left /\ e.left < defaultIdleTimeout

\* C34: resetIdleTimer() restarts the idle timer only while the machine is active: there
\* it cancels the pending timer and arms a new one with the full default timeout; in
\* idle and alert it does nothing; it never changes currentState and never invokes a
\* callback.
C34_ResetOnlyWhileActive ==
    [][smLast'.op = "resetIdleTimer" =>
          /\ currentState' = currentState
          /\ notified' = <<>>
          /\ callbacks' = callbacks
          /\ IF currentState = "active"
             THEN /\ idleTimer' # NoTimer
                  /\ smTimeouts' = {e \in smTimeouts : e.id # idleTimer}
                                      \cup {[id |-> idleTimer', left |-> defaultIdleTimeout]}
             ELSE idleTimer' = idleTimer /\ smTimeouts' = smTimeouts]_vars

\* resetIdleTimer has just run in active and one timer, with the whole timeout ahead,
\* is pending
C34_Witness ==
    /\ smLast.op = "resetIdleTimer"
    /\ currentState = "active"
    /\ smTimeouts = {[id |-> idleTimer, left |-> defaultIdleTimeout]}

\* C37: isIdleTimerRunning() is true only while an idle timer is pending, also after a
\* timer fired in a state in which the timeout is not a transition of the table.
C37_RunningMeansPending ==
    isIdleTimerRunning => \E e \in smTimeouts : e.id = idleTimer

(***************************************************************************)
(* Claims about the StateMachine whose callbacks call it (checked under    *)
(* SpecRe).                                                                *)
(***************************************************************************)
\* C31: dispose() cancels the idle timer and removes every subscriber at once: when it
\* has returned no idle timer is pending, no callback is registered, and no callback
\* is invoked any more, also when dispose() was called by a callback during a
\* notification.
C31_DisposeSilencesCallbacks ==
    [][/\ smLast'.op = "dispose" =>
              idleTimer' = NoTimer /\ smTimeouts' = {} /\ callbacks' = <<>>
       /\ \A i \in DOMAIN smEvents' : \A j \in DOMAIN smEvents' :
              (i < j /\ smEvents'[i].kind = "dispose") => smEvents'[j].kind # "call"]_vars

\* C38: when callbacks call transition() themselves, every callback invocation gets a
\* pair (newState, previousState) that was taken as a transition before the invocation,
\* and a subscriber's invocations follow one another: each starts from the state the
\* one before it ended in.
C38_ReentrantNotificationsAreEdges ==
    [][\A j \in DOMAIN smEvents' :
          smEvents'[j].kind = "call" =>
              /\ \E i \in 1 .. (j - 1) :
                     /\ smEvents'[i].kind = "taken"
                     /\ smEvents'[i].from = smEvents'[j].prev
                     /\ smEvents'[i].to = smEvents'[j].state
              /\ \A i \in 1 .. (j - 1) :
                     (/\ smEvents'[i].kind = "call"
                      /\ smEvents'[i].idx = smEvents'[j].idx
                      /\ \A k \in (i + 1) .. (j - 1) :
                             ~(smEvents'[k].kind = "call" /\ smEvents'[k].idx = smEvents'[j].idx))
                         => smEvents'[j].prev = smEvents'[i].state]_vars

(***************************************************************************)
(* Claims about the NotificationQueue class (checked under SpecNQ) and the *)
(* useBubbleNotifier hook (checked under SpecHook).                        *)
(***************************************************************************)
IsPrefix(a, b) == Len(a) <= Len(b) /\ SubSeq(b, 1, Len(a)) = a

\* C2: without clear(), the messages that became current, in the order they became
\* current, are a prefix of the messages in arrival order (each shown at most once,
\* none before an earlier arrival), whatever enqueues are interleaved between the
\* dismissals; the displayed message is the last of that prefix; and once current is
\* null again the whole input has been displayed.
C2_FifoDisplay ==
    ~nqCleared =>
        /\ IsPrefix(nqShown, nqArrived)
        /\ nqCurrent # NullMsg => nqCurrent = nqShown[Len(nqShown)]
        /\ nqCurrent = NullMsg => nqShown = nqArrived

\* C2 witness: three messages arrived, with a dismissal between two arrivals, and
\* dismissing up to null has displayed all of them.
C2_Witness ==
    /\ ~nqCleared
    /\ Len(nqArrived) >= 3
    /\ nqCurrent = NullMsg
    /\ nqShown = nqArrived
    /\ nqLast.op = "dismiss"

\* C3: a non-empty pending sequence implies a non-null current message, in the class
\* and in every rendered state of the hook.
C3_PendingImpliesCurrent ==
    /\ nqQueue # <<>> => nqCurrent # NullMsg
    /\ hQueue # <<>> => hCurrent # NullMsg

\* the ids of the messages the hook still holds: displayed, pending, or carried by a
\* queued state update
HeldIds ==
    {hCurrent.id} \cup {hQueue[i].id : i \in 1..Len(hQueue)}
      \cup {hCUpd[i].id : i \in 1..Len(hCUpd)}
      \cup UNION {{hQUpd[i].msgs[j].id : j \in 1..Len(hQUpd[i].msgs)} : i \in 1..Len(hQUpd)}

\* C4: no bubble message is silently lost: a message enqueued since the last
\* clearAll() has been displayed or is still held by the notifier (a message that is
\* neither can never become current).
C4_NoSilentLoss ==
    \A id \in hLive : id \in hShown \/ id \in HeldIds

\* C15: dismiss() on a queue with pending = [p1, p2, ...] yields current = p1 and
\* pending = [p2, ...] and returns p1; with nothing pending it yields current = null,
\* leaves pending empty and returns null; on an already empty queue it changes nothing.
C15_Dismiss ==
    [][nqLast'.op = "dismiss" =>
          /\ nqQueue # <<>> =>
                /\ nqCurrent' = Head(nqQueue)
                /\ nqQueue' = Tail(nqQueue)
                /\ nqLast'.ret = Head(nqQueue)
          /\ nqQueue = <<>> =>
                /\ nqCurrent' = NullMsg
                /\ nqQueue' = <<>>
                /\ nqLast'.ret = NullMsg
          /\ (nqCurrent = NullMsg /\ nqQueue = <<>>) => UNCHANGED <<nqCurrent, nqQueue>>]_vars

\* C15 witness: dismiss() returned the head of two pending messages, the other one
\* is still pending.
C15_Witness ==
    /\ nqLast.op = "dismiss"
    /\ nqLast.ret # NullMsg
    /\ nqLast.ret = nqCurrent
    /\ Len(nqQueue) = 1
    /\ nqArrived = <<nqShown[1], nqCurrent, nqQueue[1]>>

\* C16: clear() of the class yields current = null and nothing pending; clearAll() of
\* the hook, called in any reachable state, leaves no auto-dismiss timer armed and
\* the state the hook commits next has current = null and nothing pending (so no
\* bubble is displayed and no dismiss fires until a new message is enqueued).
C16_ClearYieldsEmpty ==
    /\ nqLast.op = "clear" => (nqCurrent = NullMsg /\ nqQueue = <<>>)
    /\ hLast.op = "clearAll" =>
          /\ hTimerRef = NoTimer
          /\ hTimeouts = {}
          /\ HPendingOutcome.cur = NullMsg
          /\ HPendingOutcome.queue = <<>>

\* the hook's queue as the calls made so far leave it (what the next render commits),
\* in the shape of the class's fields
HLogical == [current |-> HPendingOutcome.cur, queue |-> HPendingOutcome.queue]

\* C17: enqueue(m) makes m the current message when current is null and otherwise
\* appends m at the tail of pending, and enqueueAll([m1..mn]) leaves the queue as
\* enqueue(m1), ..., enqueue(mn) called one after the other would; the hook does as
\* the class does (nqEnqueue, and nqEnqueueAll which is that sequence of enqueues).
C17_EnqueueAllIsEnqueues ==
    [][/\ hLast'.op = "enqueue" =>
             \E ms \in NewMessages(hCreated, 1) : HLogical' = nqEnqueue(HLogical, ms[1])
       /\ hLast'.op = "enqueueAll" =>
             \E ms \in NewMessages(hCreated, hLast'.arg) :
                 HLogical' = nqEnqueueAll(HLogical, ms)]_vars

\* the committed state of the hook, in the shape of the class's fields
HCommitted == [current |-> hCurrent, queue |-> hQueue]

\* C18: once the effects have run (nothing is pending) an auto-dismiss timer is armed
\* exactly when currentMessage is non-null and autoDismissTimeout > 0, and at most
\* one exists; a render that changes currentMessage leaves, for a non-null message
\* and a positive timeout, one fresh timer with the whole timeout ahead and none
\* otherwise; when the timer fires the queue advances by exactly one dismiss.
C18_AutoDismissTimer ==
    [][/\ NothingPending' =>
             /\ hTimerRef' # NoTimer <=> (hCurrent' # NullMsg /\ hAutoDismiss' > 0)
             /\ Cardinality(hTimeouts') <= 1
             /\ hTimerRef' # NoTimer => \E e \in hTimeouts' : e.id = hTimerRef'
       /\ (hLast'.op = "render" /\ hCurrent' # hCurrent) =>
             hTimeouts' = IF hCurrent' # NullMsg /\ hAutoDismiss > 0
                          THEN {[id |-> hTimerRef', left |-> hAutoDismiss]}
                          ELSE {}
       /\ hLast'.op = "fire" =>
             /\ HLogical' = nqDismiss(HCommitted)
             /\ hTimerRef' = NoTimer
             /\ hTimeouts' = {}]_vars

\* C18 witness: the timer of a displayed message has fired with another message
\* pending, which the next render displays.
C18_Witness ==
    /\ hLast.op = "fire"
    /\ hCurrent # NullMsg
    /\ hQueue # <<>>
    /\ HLogical.current = Head(hQueue)
    /\ hTimerRef = NoTimer

C5_OpenClose ==
    /\ chatLast.op = "open" =>
          /\ isOpen
          /\ context # NullCtx
          /\ context.paperId = chatInput.paperId
          /\ context.paperTitle = chatInput.paperTitle
          /\ context.abstract = chatInput.abstract
          /\ context.pdfUrl = chatInput.pdfUrl
          /\ context.history = <<>>
          /\ context.isPdfProcessed = FALSE
          /\ ~context.processingStatus.isDownloading
          /\ ~context.processingStatus.isProcessing
          /\ ~context.processingStatus.isComplete
          /\ context.processingStatus.progress = 0
    /\ chatLast.op = "close" => ~isOpen /\ context = NullCtx

\* C5 witness: open() was called on a session that was open on another paper and had
\* messages in its history.
C5_Witness ==
    /\ chatLast.op = "open"
    /\ chatLast.prevLen >= 2
    /\ chatLast.prevPaper \notin {"none", chatInput.paperId}
    /\ isOpen
    /\ context.history = <<>>

\* C6: no conversation state survives a close: when a reply requested before a close()
\* resolves after the session was opened again, it is discarded: the context still
\* carries the paperId and abstract given to the last open() and its history holds
\* only messages created since that open().
C6_NoStateSurvivesClose ==
    (chatLast.op = "settle" /\ chatLast.stale /\ isOpen) =>
        /\ context # NullCtx
        /\ context.paperId = chatInput.paperId
        /\ context.abstract = chatInput.abstract
        /\ \A i \in 1 .. Len(context.history) : context.history[i].id > chatBase

\* the assistant messages of the history that answer user message id
AnswersTo(id) ==
    {i \in 1 .. Len(context.history) :
        context.history[i].role = "assistant" /\ context.history[i].re = id}

\* user message id is in the history, followed by exactly one answer to it
Answered(id) ==
    \E i \in 1 .. Len(context.history) :
        /\ context.history[i].id = id
        /\ Cardinality(AnswersTo(id)) = 1
        /\ \A j \in AnswersTo(id) : j > i

\* C7: the session is never left without a reply to a sent message: once every
\* collaborator call has resolved or rejected, each user message that sendMessage
\* appended since the session was opened (and since the history was last cleared) is
\* in the history, followed by exactly one assistant message answering it.
C7_EverySentMessageAnswered ==
    (isOpen /\ context # NullCtx /\ chatReqs = {}) => \A id \in chatSent : Answered(id)

\* the positions of the history that hold a user message
UserEntries ==
    {i \in 1 .. Len(context.history) : context.history[i].role = "user"}

\* C20: while the session is open, once every call of sendMessage and
\* handleQuickCommand has resolved (calls started before an earlier one resolved
\* included), the history holds every accepted user message and every reply, two
\* entries per call: each sent message is in the history, each user message is
\* followed by exactly one reply to it, each reply follows the user message it
\* answers, and no message is in the history twice.
C20_HistoryHoldsEveryExchange ==
    (isOpen /\ context # NullCtx /\ chatReqs = {}) =>
        /\ \A id \in chatSent : \E i \in UserEntries : context.history[i].id = id
        /\ \A i \in UserEntries : Answered(context.history[i].id)
        /\ \A i \in 1 .. Len(context.history) :
              context.history[i].role = "assistant" =>
                  \E j \in UserEntries : j < i /\ context.history[j].id = context.history[i].re
        /\ \A i, j \in 1 .. Len(context.history) :
              context.history[i].id = context.history[j].id => i = j
        /\ Len(context.history) = 2 * Cardinality(UserEntries)

\* the steps of the operations an open session exposes (settle is the part of
\* sendMessage / handleQuickCommand after the await)
SessionOps == {"call", "settle", "clearHistory", "updateProcessingStatus", "startPDFProcessing"}
SessionStep ==
    /\ chatLast'.op \in SessionOps
    /\ isOpen /\ context # NullCtx
    /\ isOpen' /\ context' # NullCtx

\* C21: the history is append-only within a session: over every step of a session
\* operation (sendMessage, handleQuickCommand, updateProcessingStatus, clearHistory,
\* startPDFProcessing) the history before is a prefix of the history after, which
\* is longer by the messages appended (none, one, or the user message and its
\* immediate reply).
C21_HistoryAppendOnly ==
    [][SessionStep =>
          /\ IsPrefix(context.history, context'.history)
          /\ Len(context'.history) <= Len(context.history) + 2]_vars

\* C22: in every open state the abstract is non-empty after trimming and is the one
\* passed to the last open, and the timestamps of the history are in non-decreasing
\* order; no step of a session operation changes paperId, paperTitle or abstract.
C22_OpenContextKeepsPaper ==
    [][/\ (isOpen' /\ context' # NullCtx) =>
             /\ validateChatContextState(context', isOpen').hasAbstract
             /\ validateChatContextState(context', isOpen').historyInOrder
             /\ context'.abstract = chatInput'.abstract
       /\ SessionStep =>
             /\ context'.paperId = context.paperId
             /\ context'.paperTitle = context.paperTitle
             /\ context'.abstract = context.abstract]_vars

\* C23: the context exists only while the session is open: isOpen is false exactly
\* when the context is null, and validateChatContextState(context, isOpen) reports a
\* valid state, also after a reply resolves that was awaited when close() was called.
C23_ContextIffOpen ==
    /\ isOpen <=> context # NullCtx
    /\ validateChatContextState(context, isOpen).isValid

\* a sendMessage / handleQuickCommand of the session that is open has just completed
CompletedInSession ==
    /\ chatLast'.op = "settle"
    /\ isOpen /\ context # NullCtx
    /\ \E req \in chatReqs \ chatReqs' : req.gen = chatGen

\* C40: a status update and a message exchange on the same open session never overwrite
\* each other: updateProcessingStatus changes only processingStatus and isPdfProcessed,
\* and a completing sendMessage / handleQuickCommand leaves the most recent status in
\* place, also when the status was updated while the call was awaiting its reply.
C40_StatusAndExchangeIndependent ==
    [][/\ (chatLast'.op = "updateProcessingStatus" /\ context # NullCtx) =>
              /\ context'.history = context.history
              /\ context'.paperId = context.paperId
              /\ context'.paperTitle = context.paperTitle
              /\ context'.abstract = context.abstract
              /\ context'.pdfUrl = context.pdfUrl
       /\ CompletedInSession =>
              /\ context'.processingStatus = context.processingStatus
              /\ context'.isPdfProcessed = context.isPdfProcessed]_vars

\* C8: a failing collaborator does not surface as an exception: when the awaited
\* collaborator rejects, the call still resolves, isLoading is false, the context is
\* non-null (a further send is accepted), a session that was open is still open, and
\* a call made on a fresh session leaves the history [user message, assistant message
\* with the fixed fallback text of its kind]; the two fallback texts differ.
C8_FailureFallback ==
    (chatLast.op = "settle" /\ chatLast.outcome = "reject") =>
        /\ chatLast.ret = "resolved"
        /\ ~isLoading
        /\ context # NullCtx
        /\ chatLast.wasOpen => isOpen
        /\ chatLast.fresh =>
              /\ Len(context.history) = 2
              /\ context.history[1].role = "user"
              /\ context.history[2].role = "assistant"
              /\ context.history[2].re = context.history[1].id
              /\ chatLast.kind = "send" =>
                    /\ context.history[2].content = LLM_FAILED
                    /\ context.history[2].content # QUICK_FAILED
              /\ chatLast.kind = "quick" =>
                    /\ context.history[2].content = QUICK_FAILED
                    /\ context.history[2].content # LLM_FAILED

\* C8 witness: the quick-command collaborator rejected a call made on a fresh, open
\* session and the history ends with its fallback text.
C8_Witness ==
    /\ chatLast.op = "settle"
    /\ chatLast.outcome = "reject"
    /\ chatLast.kind = "quick"
    /\ chatLast.fresh
    /\ isOpen
    /\ ~isLoading
    /\ context.history[2].content = QUICK_FAILED

\* a step that is a call of sendMessage or handleQuickCommand
ChatCallStep(kind) == chatLast'.op = "call" /\ chatLast'.kind = kind

\* the step made no collaborator call, appended no message and left the session as it was
ChatUntouched ==
    UNCHANGED <<context, isOpen, isLoading, chatReqs, chatMsgCount>>

\* C14: rejected input is a silent no-op: sendMessage called while the session is
\* closed or with content that is empty after trimming, and handleQuickCommand called
\* while the session is closed, return null, call no collaborator, append no message
\* and leave context, isOpen and isLoading unchanged.
C14_RejectedInputIsNoOp ==
    [][/\ (ChatCallStep("send") /\ (~isOpen \/ chatLast'.blank)) =>
             (chatLast'.ret = "null" /\ ChatUntouched)
       /\ (ChatCallStep("quick") /\ ~isOpen) =>
             (chatLast'.ret = "null" /\ ChatUntouched)]_vars

(***************************************************************************)
(* Claims about quickCommands.ts (checked under SpecQC).                   *)
(***************************************************************************)
\* text is c with nothing but white space before it and after it
IsPadded(text, c) ==
    \E i \in 1 .. (Len(text) + 1) : \E j \in 0 .. Len(text) :
        /\ SubSeq(text, i, j) = c
        /\ \A k \in 1 .. (i - 1) : text[k] \in WhiteSpace
        /\ \A k \in (j + 1) .. Len(text) : text[k] \in WhiteSpace

\* C13: matchQuickCommand(input) returns command c exactly when input without its
\* leading and trailing white space equals c character for character, c one of the
\* two commands; for every other input (a command with one more character, a command
\* with white space inside, the empty or an all-white-space text) it returns null.
C13_MatchQuickCommand ==
    qcResult.called =>
        /\ \A c \in {CMD_FORMULA, CMD_CODE_LINK} :
              qcResult.value = c <=> IsPadded(qcInput, c)
        /\ qcResult.value \in {CMD_FORMULA, CMD_CODE_LINK, NullCmd}

\* C13 witness: a padded command was matched.
C13_Witness ==
    /\ qcResult.called
    /\ qcInput = <<" ">> \o CMD_CODE_LINK \o <<"\n">>
    /\ qcResult.value = CMD_CODE_LINK

PollAnswered == homeLast'.op = "pollResponse"

\* C24: the status polling stops as soon as a polled snapshot reports isComplete or a
\* non-empty errorMessage, whatever its isDownloading / isProcessing flags: once the
\* snapshot is handled no interval is left, and no status request is made while the
\* last polled status is finished.
C24_PollingStopsWhenFinished ==
    [][/\ (PollAnswered /\ IsFinished(processingStatus')) =>
              (pollIntervals' = {} /\ statusPollingRef' = NoTimer)
       /\ homeLast'.op = "tick" => ~IsFinished(processingStatus)]_vars

\* the last status ChatInterface knows is complete or errored
LastStatusFinished == processingStatus # NullStatus /\ IsFinished(processingStatus)

\* C25: the status-poll interval is active exactly while the session is open, its
\* context has a PDF URL and the last known status is neither complete nor errored; at
\* most one interval exists, and it is the one stored in statusPollingRef, for the
\* paper of the current context (an interval of a closed session or of a replaced
\* context is cleared and cannot tick).
C25_IntervalIffPollable ==
    /\ pollIntervals # {} <=>
          (isOpen /\ context # NullCtx /\ context.pdfUrl # NoUrl /\ ~LastStatusFinished)
    /\ Cardinality(pollIntervals) <= 1
    /\ \A iv \in pollIntervals :
          iv.id = statusPollingRef /\ context # NullCtx /\ iv.paperId = context.paperId

\* sendMessage has just handed a context to onLLMRequest
SendHandedOver ==
    chatLast'.op = "call" /\ chatLast'.kind = "send" /\ chatLast'.ret = "pending"

\* C26: isPdfProcessed mirrors the isComplete of the context's processing status, and
\* once a polled snapshot has reported isComplete the context a sendMessage hands to
\* the answer collaborator has isPdfProcessed = true.
C26_ProcessedAfterPolledComplete ==
    [][/\ context' # NullCtx =>
              context'.isPdfProcessed = context'.processingStatus.isComplete
       /\ (SendHandedOver /\ processingStatus # NullStatus /\ processingStatus.isComplete) =>
              \A req \in chatReqs' \ chatReqs : req.ctx.isPdfProcessed]_vars

\* String.prototype.endsWith
EndsWith(text, suffix) ==
    /\ Len(suffix) <= Len(text)
    /\ SubSeq(text, Len(text) - Len(suffix) + 1, Len(text)) = suffix

\* the answer just written to the session was obtained without the full PDF text
AnsweredFromAbstract ==
    /\ homeLast'.op = "reply"
    /\ homeLast'.path \in {"abstractOnly", "abstractFallback"}

\* C27: every reply of the abstract-only answer path (the context is not PDF-processed
\* or has no PDF URL, or the full-text request failed and the abstract was used) ends
\* with the reliability disclaimer.
C27_AbstractReplyHasDisclaimer ==
    [][AnsweredFromAbstract =>
          /\ context'.history # <<>>
          /\ EndsWith(context'.history[Len(context'.history)].content, PDF_DISCLAIMER)]_vars

\* handleQuickCommand has just written its reply, and its collaborator was not
\* available: no handler was supplied, or the backend is not connected
QuickAnsweredOffline ==
    /\ chatLast'.op \in {"call", "settle"}
    /\ chatLast'.kind = "quick"
    /\ chatLast'.ret = "resolved"
    /\ (~chatOpts.quick \/ ~isConnected)

\* the command a reply was written for: the content of the user message it answers
CommandOf(history, reply) ==
    LET i == CHOOSE k \in 1 .. Len(history) : history[k].id = reply.re
    IN  history[i].content

\* C28: when the quick-command collaborator is unavailable (no handler supplied, or the
\* backend not connected), the reply handleQuickCommand writes is the command's local
\* extraction from the abstract, executeQuickCommand(command, context).
C28_OfflineQuickCommandIsLocal ==
    [][QuickAnsweredOffline =>
          LET history == context'.history
              reply == history[Len(history)]
          IN  /\ reply.role = "assistant"
              /\ reply.content = executeQuickCommand(CommandOf(history, reply), context')]_vars

\* the last entry of the history committed by the step
LastWritten == context'.history[Len(context'.history)]

\* C29: open with a PDF URL makes exactly one onStartPDFProcessing call, for its paperId
\* and pdfUrl, and open without a PDF URL makes none; open leaves the session open
\* with the new context; however the call settles, the session is left as it is; a
\* message sent in the open session is accepted, and it is answered when onLLMRequest
\* returns.
C29_KickoffNeverBlocksSession ==
    [][/\ homeLast'.op = "open" =>
              /\ pdfKicks' = IF chatInput'.pdfUrl # NoUrl
                             THEN Append(pdfKicks, [paperId |-> chatInput'.paperId,
                                                    pdfUrl |-> chatInput'.pdfUrl,
                                                    state |-> "pending"])
                             ELSE pdfKicks
              /\ isOpen'
              /\ context' = createChatContext(chatInput'.paperId, chatInput'.paperTitle,
                                              chatInput'.abstract, chatInput'.pdfUrl)
       /\ homeLast'.op = "kickoff" =>
              /\ homeLast'.outcome \in {"success", "failed", "rejected"}
              /\ isOpen' = isOpen /\ context' = context
              /\ chatReqs' = chatReqs /\ isLoading' = isLoading
       /\ (homeLast'.op = "send" /\ ~chatLast'.blank) =>
              /\ chatLast'.ret = "pending"
              /\ \E req \in chatReqs' \ chatReqs : req.id = LastWritten.id
              /\ LastWritten.role = "user"
       /\ (homeLast'.op = "reply" /\ chatLast'.kind = "send") =>
              /\ chatLast'.ret = "resolved"
              /\ LastWritten.role = "assistant"
              /\ LastWritten.content # <<>>
              /\ \E req \in chatReqs \ chatReqs' : LastWritten.re = req.id]_vars

\* a message was answered in a session whose onStartPDFProcessing call had failed
C29_Witness ==
    /\ homeLast.op = "reply" /\ chatLast.kind = "send"
    /\ isOpen /\ context # NullCtx /\ context.pdfUrl # NoUrl
    /\ context.history[Len(context.history)].role = "assistant"
    /\ \E k \in 1 .. Len(pdfKicks) :
          /\ pdfKicks[k].paperId = context.paperId
          /\ pdfKicks[k].state \in {"failed", "rejected"}
(***************************************************************************)
(* Claims about Home with the Avatar, the app store and the notifier       *)
(* (checked under SpecApp).                                                *)
(***************************************************************************)
\* C35: every change of the store's avatarState follows an edge of the transition
\* table (so the avatar becomes alert only from idle, never from active), and after
\* every step with its effects the store's avatarState is the currentState of the
\* Avatar's machine.
C35_StoreFollowsTable ==
    [][/\ avatarState' # avatarState =>
              \E t \in TransitionTrigger : VALID_TRANSITIONS(avatarState, t) = avatarState'
       /\ (avatarState' = "alert" /\ avatarState # "alert") => avatarState = "idle"
       /\ smMounted' => avatarState' = currentState']_vars

\* C36: when Home's effect finds notifications not processed before, the bubble it
\* makes is the displayed message after the step and nothing is pending, whether or
\* not a bubble was displayed when the effect ran; notifications that were all
\* processed before make no bubble.
C36_OneBubblePerBatch ==
    [][appLast'.op = "notifications" =>
          /\ appLast'.fresh = notifications' \ processedNotificationIds
          /\ IF appLast'.fresh # {}
             THEN hCurrent' = appLast'.bubble /\ hQueue' = <<>>
             ELSE UNCHANGED <<hCurrent, hQueue, hCreated>>]_vars

(***************************************************************************)
(* Claims about the hook and the class given the same calls (checked       *)
(* under SpecBoth).                                                        *)
(***************************************************************************)
\* C39: given the same calls, with a render after each, the hook's currentMessage and
\* queue are the class's current and queue after every step.
C39_HookRefinesClass ==
    hCurrent = nqCurrent /\ hQueue = nqQueue

\* a dismiss has moved a pending message into display with another still pending, in
\* both
C39_Witness ==
    /\ nqLast.op = "dismiss" /\ hLast.op \in {"dismiss", "fire"}
    /\ hCurrent # NullMsg /\ hQueue # <<>>
    /\ nqCleared

====
